---- MODULE Spec2Model ----
(***************************************************************************)
(* A model of the coroutine thread of the Lua runtime in src/src/thread.rs *)
(* : the frame stack, the value stack, the open up-value map, the opcode   *)
(* dispatch loop of Thread::step_lua and the ThreadSequence that drives    *)
(* it.  Stack and frame indices are 0-based as in the source; the TLA+     *)
(* sequences that hold them are 1-based, and At/Put convert.               *)
(***************************************************************************)
EXTENDS Integers, Sequences, FiniteSets, TLC

(***************************************************************************)
(* Bounds of the model.                                                    *)
(***************************************************************************)
\* The number of sequences (Thread::call / Thread::resume results) the
\* embedder creates on the thread in one behaviour.
MaxSeqs == 2

(***************************************************************************)
(* Values (Value<'gc>).  Heap objects are identified by their index in the *)
(* heap that owns them.                                                    *)
(***************************************************************************)
Nil == [t |-> "nil", v |-> 0]
Integer(n) == [t |-> "integer", v |-> n]
NaN == [t |-> "nan", v |-> 0]
Str(n) == [t |-> "string", v |-> n]
ClosureV(c) == [t |-> "closure", v |-> c]
CallbackV(c) == [t |-> "callback", v |-> c]
TableV(i) == [t |-> "table", v |-> i]

\* Value::type_name
type_name(val) ==
    CASE val.t = "nil" -> "nil"
      [] val.t \in {"integer", "nan"} -> "number"
      [] val.t = "string" -> "string"
      [] val.t \in {"closure", "callback"} -> "function"
      [] val.t = "table" -> "table"

\* Value::to_bool: only Nil (and Boolean(false), which the model's programs do
\* not produce) is false.
to_bool(val) == val.t # "nil"

(***************************************************************************)
(* VarCount: a constant count or "variable" (the stack top carries it).    *)
(***************************************************************************)
VarCount_variable == [variable |-> TRUE, n |-> 0]
VarCount_constant(k) == [variable |-> FALSE, n |-> k]
is_variable(vc) == vc.variable
\* VarCount::to_constant().map(|c| c as usize).unwrap_or(dflt)
to_constant_or(vc, dflt) == IF vc.variable THEN dflt ELSE vc.n

(***************************************************************************)
(* Vec<Value> helpers, 0-based.                                            *)
(***************************************************************************)
At(s, i) == s[i + 1]
Put(s, i, val) == [s EXCEPT ![i + 1] = val]
InBounds(s, i) == i >= 0 /\ i < Len(s)
Min(a, b) == IF a < b THEN a ELSE b
Max(a, b) == IF a < b THEN b ELSE a
\* Vec::truncate
truncate(s, n) == IF n < Len(s) THEN SubSeq(s, 1, n) ELSE s
\* Vec::resize(n, Value::Nil)
resize(s, n) ==
    IF n <= Len(s) THEN SubSeq(s, 1, n)
    ELSE s \o [i \in 1..(n - Len(s)) |-> Nil]
\* slice::rotate_left(k) applied to s[from..]
rotate_left_from(s, from, k) ==
    LET n == Len(s) - from
    IN [i \in 1..Len(s) |->
          IF i <= from THEN s[i]
          ELSE s[from + (((i - from - 1) + k) % n) + 1]]
Last(s) == s[Len(s)]
Front(s) == SubSeq(s, 1, Len(s) - 1)
(***************************************************************************)
(* Byte-code.  A Prototype has a constants pool, opcodes, nested           *)
(* prototypes, up-value descriptors, a fixed parameter count and a frame   *)
(* size.  The compiler is outside the source, so the model runs a library  *)
(* of prototypes shaped as the compiler would emit them; the Lua text each *)
(* one stands for is given beside it.  Registers and constants are         *)
(* 0-based.                                                                *)
(***************************************************************************)
Proto(fixed, size, ks, ups, ops) ==
    [fixed_params |-> fixed, stack_size |-> size, constants |-> ks,
     upvalues |-> ups, opcodes |-> ops]

ParentLocal(r) == [kind |-> "ParentLocal", idx |-> r]
Outer(i) == [kind |-> "Outer", idx |-> i]

\* function f(...) return (...)(...) end
Proto_TailSelf ==
    Proto(0, 2, <<>>, <<>>,
      << [op |-> "VarArgs", dest |-> 0, count |-> VarCount_constant(1)],
         [op |-> "VarArgs", dest |-> 1, count |-> VarCount_variable],
         [op |-> "TailCall", func |-> 0, args |-> VarCount_variable] >>)

\* function() while true do end end
Proto_Spin ==
    Proto(0, 1, <<>>, <<>>,
      << [op |-> "Jump", offset |-> -1, close_upvalues |-> -1] >>)

\* function(g, x) local a, b = g(x); return a, b end
Proto_CallK ==
    Proto(2, 4, <<>>, <<>>,
      << [op |-> "Move", dest |-> 2, source |-> 0],
         [op |-> "Move", dest |-> 3, source |-> 1],
         [op |-> "Call", func |-> 2, args |-> VarCount_constant(1),
             returns |-> VarCount_constant(2)],
         [op |-> "Return", start |-> 2, count |-> VarCount_constant(2)] >>)

\* function(g, x) return x, g(x) end
Proto_CallV ==
    Proto(2, 5, <<>>, <<>>,
      << [op |-> "Move", dest |-> 2, source |-> 1],
         [op |-> "Move", dest |-> 3, source |-> 0],
         [op |-> "Move", dest |-> 4, source |-> 1],
         [op |-> "Call", func |-> 3, args |-> VarCount_constant(1),
             returns |-> VarCount_variable],
         [op |-> "Return", start |-> 2, count |-> VarCount_variable] >>)

\* function(g, x) return g(x) end
Proto_TailG ==
    Proto(2, 4, <<>>, <<>>,
      << [op |-> "Move", dest |-> 2, source |-> 0],
         [op |-> "Move", dest |-> 3, source |-> 1],
         [op |-> "TailCall", func |-> 2, args |-> VarCount_constant(1)] >>)

\* function(a, b) return a + b end
Proto_Add ==
    Proto(2, 3, <<>>, <<>>,
      << [op |-> "AddRR", dest |-> 2, left |-> 0, right |-> 1],
         [op |-> "Return", start |-> 2, count |-> VarCount_constant(1)] >>)

\* function(a, b) return (a - b) * 2 end
Proto_SubMul ==
    Proto(2, 3, << Integer(2) >>, <<>>,
      << [op |-> "SubRR", dest |-> 2, left |-> 0, right |-> 1],
         [op |-> "MulRC", dest |-> 2, left |-> 2, right |-> 0],
         [op |-> "Return", start |-> 2, count |-> VarCount_constant(1)] >>)

\* function(k, v) local t = {}; t[k] = v; return t[k] end
Proto_TableSet ==
    Proto(2, 4, <<>>, <<>>,
      << [op |-> "NewTable", dest |-> 2],
         [op |-> "SetTableRR", table |-> 2, key |-> 0, value |-> 1],
         [op |-> "GetTableR", dest |-> 3, table |-> 2, key |-> 0],
         [op |-> "Return", start |-> 3, count |-> VarCount_constant(1)] >>)

\* function(t) return #t, t.x, t:m() end     (constant 0 is "x", 1 is "m")
Proto_TableUse ==
    Proto(1, 5, << Str(1), Str(2) >>, <<>>,
      << [op |-> "Length", dest |-> 1, source |-> 0],
         [op |-> "GetTableC", dest |-> 2, table |-> 0, key |-> 0],
         [op |-> "SelfC", base |-> 3, table |-> 0, key |-> 1],
         [op |-> "Call", func |-> 3, args |-> VarCount_constant(1),
             returns |-> VarCount_variable],
         [op |-> "Return", start |-> 1, count |-> VarCount_variable] >>)

\* function(t, k) t[k] = 1 end
Proto_Store ==
    Proto(2, 2, << Integer(1) >>, <<>>,
      << [op |-> "SetTableRC", table |-> 0, key |-> 1, value |-> 0],
         [op |-> "Return", start |-> 0, count |-> VarCount_constant(0)] >>)

\* function(a, b) return a .. b end
Proto_Concat ==
    Proto(2, 3, <<>>, <<>>,
      << [op |-> "Concat", dest |-> 2, source |-> 0, count |-> 2],
         [op |-> "Return", start |-> 2, count |-> VarCount_constant(1)] >>)

\* function(g) while true do g() end end
Proto_LoopCall ==
    Proto(1, 2, <<>>, <<>>,
      << [op |-> "Move", dest |-> 1, source |-> 0],
         [op |-> "Call", func |-> 1, args |-> VarCount_constant(0),
             returns |-> VarCount_constant(0)],
         [op |-> "Jump", offset |-> -3, close_upvalues |-> -1] >>)

\* function() end
Proto_Ret0 ==
    Proto(0, 0, <<>>, <<>>,
      << [op |-> "Return", start |-> 0, count |-> VarCount_constant(0)] >>)

\* function(g) local a, b, c = g() end
Proto_Call3 ==
    Proto(1, 4, <<>>, <<>>,
      << [op |-> "Move", dest |-> 1, source |-> 0],
         [op |-> "Call", func |-> 1, args |-> VarCount_constant(0),
             returns |-> VarCount_constant(3)],
         [op |-> "Return", start |-> 0, count |-> VarCount_constant(0)] >>)

\* function(...) return ... end
Proto_RetArgs ==
    Proto(0, 1, <<>>, <<>>,
      << [op |-> "VarArgs", dest |-> 0, count |-> VarCount_variable],
         [op |-> "Return", start |-> 0, count |-> VarCount_variable] >>)

\* function(a) for i = a, 2 do end end       (constant 0 is 2, 1 is 1)
Proto_NumFor ==
    Proto(1, 5, << Integer(2), Integer(1) >>, <<>>,
      << [op |-> "Move", dest |-> 1, source |-> 0],
         [op |-> "LoadConstant", dest |-> 2, constant |-> 0],
         [op |-> "LoadConstant", dest |-> 3, constant |-> 1],
         [op |-> "NumericForPrep", base |-> 1, jump |-> 0],
         [op |-> "NumericForLoop", base |-> 1, jump |-> -1],
         [op |-> "Return", start |-> 0, count |-> VarCount_constant(0)] >>)

\* function(it) for x in it do end end
Proto_GenFor ==
    Proto(1, 7, <<>>, <<>>,
      << [op |-> "Move", dest |-> 1, source |-> 0],
         [op |-> "LoadNil", dest |-> 2, count |-> 2],
         [op |-> "GenericForCall", base |-> 1, var_count |-> 1],
         [op |-> "GenericForLoop", base |-> 3, jump |-> -2],
         [op |-> "Return", start |-> 0, count |-> VarCount_constant(0)] >>)

\* function() local x = 0
\*   local function inc() x = x + 1; return x end
\*   inc(); return inc() end                   (constant 0 is 0)
Proto_Counter ==
    Proto(0, 3, << Integer(0) >>, <<>>,
      << [op |-> "LoadConstant", dest |-> 0, constant |-> 0],
         [op |-> "Closure", proto |-> "Inc", dest |-> 1],
         [op |-> "Move", dest |-> 2, source |-> 1],
         [op |-> "Call", func |-> 2, args |-> VarCount_constant(0),
             returns |-> VarCount_constant(0)],
         [op |-> "Move", dest |-> 2, source |-> 1],
         [op |-> "Call", func |-> 2, args |-> VarCount_constant(0),
             returns |-> VarCount_variable],
         [op |-> "Return", start |-> 2, count |-> VarCount_variable] >>)

\* the nested function inc of Proto_Counter   (constant 0 is 1)
Proto_Inc ==
    Proto(0, 1, << Integer(1) >>, << ParentLocal(0) >>,
      << [op |-> "GetUpValue", dest |-> 0, source |-> 0],
         [op |-> "AddRC", dest |-> 0, left |-> 0, right |-> 0],
         [op |-> "SetUpValue", source |-> 0, dest |-> 0],
         [op |-> "Return", start |-> 0, count |-> VarCount_constant(1)] >>)

\* the nested function get of Proto_Mk
Proto_Get ==
    Proto(0, 1, <<>>, << ParentLocal(0) >>,
      << [op |-> "GetUpValue", dest |-> 0, source |-> 0],
         [op |-> "Return", start |-> 0, count |-> VarCount_constant(1)] >>)

\* function() local x = 0
\*   local function inc() x = x + 1; return x end
\*   local function get() return x end
\*   inc(); local r = get(); return inc, get end     (constant 0 is 0)
Proto_Mk ==
    Proto(0, 5, << Integer(0) >>, <<>>,
      << [op |-> "LoadConstant", dest |-> 0, constant |-> 0],
         [op |-> "Closure", proto |-> "Inc", dest |-> 1],
         [op |-> "Closure", proto |-> "Get", dest |-> 2],
         [op |-> "Move", dest |-> 3, source |-> 1],
         [op |-> "Call", func |-> 3, args |-> VarCount_constant(0),
             returns |-> VarCount_constant(0)],
         [op |-> "Move", dest |-> 3, source |-> 2],
         [op |-> "Call", func |-> 3, args |-> VarCount_constant(0),
             returns |-> VarCount_constant(1)],
         [op |-> "Move", dest |-> 3, source |-> 1],
         [op |-> "Move", dest |-> 4, source |-> 2],
         [op |-> "Return", start |-> 3, count |-> VarCount_constant(2)] >>)

\* function() local inc, get = mk(); local a = inc(); local b = inc()
\*   local c = get(); return a, b, c end
Proto_Shared ==
    Proto(0, 5, <<>>, <<>>,
      << [op |-> "Closure", proto |-> "Mk", dest |-> 0],
         [op |-> "Call", func |-> 0, args |-> VarCount_constant(0),
             returns |-> VarCount_constant(2)],
         [op |-> "Move", dest |-> 2, source |-> 0],
         [op |-> "Call", func |-> 2, args |-> VarCount_constant(0),
             returns |-> VarCount_constant(1)],
         [op |-> "Move", dest |-> 3, source |-> 0],
         [op |-> "Call", func |-> 3, args |-> VarCount_constant(0),
             returns |-> VarCount_constant(1)],
         [op |-> "Move", dest |-> 4, source |-> 1],
         [op |-> "Call", func |-> 4, args |-> VarCount_constant(0),
             returns |-> VarCount_constant(1)],
         [op |-> "Return", start |-> 2, count |-> VarCount_constant(3)] >>)

\* the nested function get of Proto_Capture
Proto_Get1 ==
    Proto(0, 1, <<>>, << ParentLocal(1) >>,
      << [op |-> "GetUpValue", dest |-> 0, source |-> 0],
         [op |-> "Return", start |-> 0, count |-> VarCount_constant(1)] >>)

\* function(g) local x = 0
\*   local function get() return x end
\*   local r = get(g(x)); return r end         (constant 0 is 0)
Proto_Capture ==
    Proto(1, 6, << Integer(0) >>, <<>>,
      << [op |-> "LoadConstant", dest |-> 1, constant |-> 0],
         [op |-> "Closure", proto |-> "Get1", dest |-> 2],
         [op |-> "Move", dest |-> 3, source |-> 2],
         [op |-> "Move", dest |-> 4, source |-> 0],
         [op |-> "Move", dest |-> 5, source |-> 1],
         [op |-> "Call", func |-> 4, args |-> VarCount_constant(1),
             returns |-> VarCount_variable],
         [op |-> "Call", func |-> 3, args |-> VarCount_variable,
             returns |-> VarCount_constant(1)],
         [op |-> "Return", start |-> 3, count |-> VarCount_constant(1)] >>)

\* function(g) do local x, y = 7, 8 end; return g() end
\*                                         (constant 0 is 7, 1 is 8)
Proto_Stale ==
    Proto(1, 3, << Integer(7), Integer(8) >>, <<>>,
      << [op |-> "LoadConstant", dest |-> 1, constant |-> 0],
         [op |-> "LoadConstant", dest |-> 2, constant |-> 1],
         [op |-> "Move", dest |-> 1, source |-> 0],
         [op |-> "Call", func |-> 1, args |-> VarCount_constant(0),
             returns |-> VarCount_variable],
         [op |-> "Return", start |-> 1, count |-> VarCount_variable] >>)

\* function(p) return p end
Proto_Id ==
    Proto(1, 1, <<>>, <<>>,
      << [op |-> "Return", start |-> 0, count |-> VarCount_constant(1)] >>)

\* function() local get
\*   do local x = 5; get = function() return x end end
\*   return get() end                          (constant 0 is 5)
Proto_Block ==
    Proto(0, 3, << Integer(5) >>, <<>>,
      << [op |-> "LoadConstant", dest |-> 1, constant |-> 0],
         [op |-> "Closure", proto |-> "Get1", dest |-> 2],
         [op |-> "Move", dest |-> 0, source |-> 2],
         [op |-> "Jump", offset |-> 0, close_upvalues |-> 1],
         [op |-> "Move", dest |-> 1, source |-> 0],
         [op |-> "Call", func |-> 1, args |-> VarCount_constant(0),
             returns |-> VarCount_variable],
         [op |-> "Return", start |-> 1, count |-> VarCount_variable] >>)

\* function(a, b, s) local r = 0
\*   for i = a, b, s do r = r * 5 + i + 2 end
\*   return r end                  (constant 0 is 0, 1 is 5, 2 is 2)
Proto_For3 ==
    Proto(3, 8, << Integer(0), Integer(5), Integer(2) >>, <<>>,
      << [op |-> "LoadConstant", dest |-> 3, constant |-> 0],
         [op |-> "Move", dest |-> 4, source |-> 0],
         [op |-> "Move", dest |-> 5, source |-> 1],
         [op |-> "Move", dest |-> 6, source |-> 2],
         [op |-> "NumericForPrep", base |-> 4, jump |-> 3],
         [op |-> "MulRC", dest |-> 3, left |-> 3, right |-> 1],
         [op |-> "AddRR", dest |-> 3, left |-> 3, right |-> 7],
         [op |-> "AddRC", dest |-> 3, left |-> 3, right |-> 2],
         [op |-> "NumericForLoop", base |-> 4, jump |-> -4],
         [op |-> "Return", start |-> 3, count |-> VarCount_constant(1)] >>)

Protos ==
    [TailSelf |-> Proto_TailSelf, Spin |-> Proto_Spin, CallK |-> Proto_CallK,
     CallV |-> Proto_CallV, TailG |-> Proto_TailG, Add |-> Proto_Add,
     SubMul |-> Proto_SubMul, TableSet |-> Proto_TableSet,
     TableUse |-> Proto_TableUse, Store |-> Proto_Store,
     Concat |-> Proto_Concat, LoopCall |-> Proto_LoopCall,
     Ret0 |-> Proto_Ret0, RetArgs |-> Proto_RetArgs, NumFor |-> Proto_NumFor,
     GenFor |-> Proto_GenFor, Counter |-> Proto_Counter, Inc |-> Proto_Inc,
     Get |-> Proto_Get, Mk |-> Proto_Mk, Shared |-> Proto_Shared,
     Get1 |-> Proto_Get1, Capture |-> Proto_Capture, Call3 |-> Proto_Call3,
     Stale |-> Proto_Stale, Id |-> Proto_Id, Block |-> Proto_Block,
     For3 |-> Proto_For3]

\* The closures of the top-level prototypes, allocated before the thread runs
\* (none of them has an up-value).
TopLevel ==
    << "TailSelf", "Spin", "CallK", "CallV", "TailG", "Add", "SubMul",
       "TableSet", "TableUse", "Store", "Concat", "LoopCall", "Ret0",
       "RetArgs", "NumFor", "GenFor", "Counter", "Shared", "Capture", "Call3", "Stale", "Id",
       "Block", "For3" >>
InitClosures == [i \in 1..Len(TopLevel) |-> [proto |-> TopLevel[i], upvalues |-> <<>>]]
Fn(name) == ClosureV(CHOOSE i \in 1..Len(TopLevel) : TopLevel[i] = name)
\* A host callback (Function::Callback); what it does is decided when its
\* sequence is stepped.
HostFn == CallbackV(1)
(***************************************************************************)
(* Errors (Error<'gc>) and sequence results.                               *)
(***************************************************************************)
NoError == [kind |-> "none", expected |-> "", found |-> ""]
TypeError(expected, found) == [kind |-> "TypeError", expected |-> expected, found |-> found]
BadYield == [kind |-> "BadYield", expected |-> "", found |-> ""]
BadResume == [kind |-> "BadResume", expected |-> "", found |-> ""]
\* an error raised by host code
UserError == [kind |-> "UserError", expected |-> "", found |-> ""]

NoResult == [tag |-> "none", vals |-> <<>>, err |-> NoError]
Ok(vals) == [tag |-> "ok", vals |-> vals, err |-> NoError]
Err(e) == [tag |-> "err", vals |-> <<>>, err |-> e]

(***************************************************************************)
(* Frames.                                                                 *)
(***************************************************************************)
CallBoundary == [kind |-> "CallBoundary", returns |-> VarCount_constant(0)]
Upper(returns) == [kind |-> "Upper", returns |-> returns]

LuaFrame(bottom, top, base, frame_return, yieldable) ==
    [bottom |-> bottom, top |-> top, frame_type |-> "Lua", base |-> base,
     pc |-> 0, function |-> Nil, frame_return |-> frame_return,
     yieldable |-> yieldable]
CallbackFrame(bottom, frame_return, yieldable) ==
    [bottom |-> bottom, top |-> bottom, frame_type |-> "Callback", base |-> 0,
     pc |-> 0, function |-> Nil, frame_return |-> frame_return,
     yieldable |-> yieldable]
CoroutineStartFrame(function) ==
    [bottom |-> 0, top |-> 0, frame_type |-> "CoroutineStart", base |-> 0,
     pc |-> 0, function |-> function, frame_return |-> CallBoundary,
     yieldable |-> TRUE]

(***************************************************************************)
(* The state a handler works on: the ThreadState (stack, frames,           *)
(* open_upvalues) and the garbage-collected heap it reaches (up-value      *)
(* cells, closures, tables), with the panic message of a handler that      *)
(* panicked ("" while it has not).                                         *)
(*   open_upvalues : a function  stack index -> up-value cell              *)
(*   upvalues[c]   : [open, ind, val], Open(this thread, ind) or           *)
(*                   Closed(val)                                           *)
(*   closures[c]   : [proto, upvalues]                                     *)
(*   tables[i]     : the set of [k, v] entries of the table                *)
(***************************************************************************)
Panic(st, msg) == [st EXCEPT !.panic = msg]
Panicked(st) == st.panic # ""

EmptyMap == [k \in {} |-> 0]
OpenCell(ind) == [open |-> TRUE, ind |-> ind, val |-> Nil]
ClosedCell(val) == [open |-> FALSE, ind |-> 0, val |-> val]

\* A close that drops the cells from the map and leaves them open
close_upvalues_Forget(st, bottom) ==
    LET closing == {k \in DOMAIN st.open_upvalues : k >= bottom}
    IN [st EXCEPT
          !.open_upvalues = [k \in (DOMAIN st.open_upvalues) \ closing |-> st.open_upvalues[k]]]

\* A close that turns the cells Closed and leaves them in the map
close_upvalues_KeepInMap(st, bottom) ==
    LET closing == {k \in DOMAIN st.open_upvalues : k >= bottom}
        cells == {st.open_upvalues[k] : k \in closing}
    IN IF \E c \in cells : st.upvalues[c].open /\ ~InBounds(st.stack, st.upvalues[c].ind)
       THEN Panic(st, "index out of bounds")
       ELSE [st EXCEPT
               !.upvalues = [c \in DOMAIN st.upvalues |->
                               IF c \in cells /\ st.upvalues[c].open
                               THEN ClosedCell(At(st.stack, st.upvalues[c].ind))
                               ELSE st.upvalues[c]]]
\* Thread::close_upvalues: split the map at bottom and close every cell at or
\* above it with the value its slot holds.
close_upvalues(st, bottom) ==
    LET closing == {k \in DOMAIN st.open_upvalues : k >= bottom}
        cells == {st.open_upvalues[k] : k \in closing}
    IN IF \E c \in cells : st.upvalues[c].open /\ ~InBounds(st.stack, st.upvalues[c].ind)
       THEN Panic(st, "index out of bounds")
       ELSE [st EXCEPT
               !.open_upvalues = [k \in (DOMAIN st.open_upvalues) \ closing |-> st.open_upvalues[k]],
               !.upvalues = [c \in DOMAIN st.upvalues |->
                               IF c \in cells /\ st.upvalues[c].open
                               THEN ClosedCell(At(st.stack, st.upvalues[c].ind))
                               ELSE st.upvalues[c]]]

\* get_upvalue
get_upvalue(st, uv) ==
    IF st.upvalues[uv].open THEN At(st.stack, st.upvalues[uv].ind) ELSE st.upvalues[uv].val

\* A call of a closure whose frame does not take the caller's yieldable flag
call_closure_NotYieldable(st, function_index, args, frame_return, yieldable) ==
    LET closure == st.closures[At(st.stack, function_index).v]
        arg_count == to_constant_or(args, Len(st.stack) - function_index - 1)
        fixed_params == Protos[closure.proto].fixed_params
        base == IF arg_count > fixed_params
                THEN function_index + 1 + (arg_count - fixed_params)
                ELSE function_index + 1
        truncated == truncate(st.stack, function_index + 1 + arg_count)
        top == base + Protos[closure.proto].stack_size
    IN IF arg_count > fixed_params /\ Len(truncated) - (function_index + 1) < fixed_params
       THEN Panic(st, "rotate_left: mid > len")
       ELSE [st EXCEPT
               !.stack = resize(IF arg_count > fixed_params
                                THEN rotate_left_from(truncated, function_index + 1, fixed_params)
                                ELSE st.stack, top),
               !.frames = Append(st.frames,
                                 LuaFrame(function_index, top, base, frame_return, FALSE))]
\* A call of a closure that leaves the arguments where the caller put them
call_closure_NoRotate(st, function_index, args, frame_return, yieldable) ==
    LET closure == st.closures[At(st.stack, function_index).v]
        arg_count == to_constant_or(args, Len(st.stack) - function_index - 1)
        fixed_params == Protos[closure.proto].fixed_params
        base == IF arg_count > fixed_params
                THEN function_index + 1 + (arg_count - fixed_params)
                ELSE function_index + 1
        truncated == truncate(st.stack, function_index + 1 + arg_count)
        top == base + Protos[closure.proto].stack_size
    IN [st EXCEPT
          !.stack = resize(IF arg_count > fixed_params THEN truncated ELSE st.stack, top),
          !.frames = Append(st.frames,
                            LuaFrame(function_index, top, base, frame_return, yieldable))]
\* Thread::call_closure
call_closure(st, function_index, args, frame_return, yieldable) ==
    LET closure == st.closures[At(st.stack, function_index).v]
        arg_count == to_constant_or(args, Len(st.stack) - function_index - 1)
        fixed_params == Protos[closure.proto].fixed_params
        base == IF arg_count > fixed_params
                THEN function_index + 1 + (arg_count - fixed_params)
                ELSE function_index + 1
        truncated == truncate(st.stack, function_index + 1 + arg_count)
        top == base + Protos[closure.proto].stack_size
    IN IF arg_count > fixed_params /\ Len(truncated) - (function_index + 1) < fixed_params
       THEN Panic(st, "rotate_left: mid > len")
       ELSE [st EXCEPT
               !.stack = resize(IF arg_count > fixed_params
                                THEN rotate_left_from(truncated, function_index + 1, fixed_params)
                                ELSE st.stack, top),
               !.frames = Append(st.frames,
                                 LuaFrame(function_index, top, base, frame_return, yieldable))]

\* A call of a callback whose frame starts above the callee's slot
call_callback_AboveCallee(st, function_index, args, frame_return, yieldable) ==
    LET arg_count == to_constant_or(args, Len(st.stack) - function_index - 1)
    IN IF function_index + 1 + arg_count > Len(st.stack)
       THEN Panic(st, "index out of bounds")
       ELSE [st EXCEPT
               !.frames = Append(st.frames,
                                 CallbackFrame(function_index + 1, frame_return, yieldable)),
               !.stack = resize(st.stack, function_index)]

\* Thread::call_callback: the callback's sequence is created from the
\* arguments, a Callback frame is pushed and the stack is cut at the callee.
call_callback(st, function_index, args, frame_return, yieldable) ==
    LET arg_count == to_constant_or(args, Len(st.stack) - function_index - 1)
    IN IF function_index + 1 + arg_count > Len(st.stack)
       THEN Panic(st, "index out of bounds")
       ELSE [st EXCEPT
               !.frames = Append(st.frames, CallbackFrame(function_index, frame_return, yieldable)),
               !.stack = resize(st.stack, function_index)]

\* Thread::call_function.  The result is [st, res, err] with res one of
\* "Unfinished", "PendingCallback", "Err" (or "Panic").
call_function(st, function_index, args, frame_return, yieldable) ==
    IF ~InBounds(st.stack, function_index)
    THEN [st |-> Panic(st, "index out of bounds"), res |-> "Panic", err |-> NoError]
    ELSE LET val == At(st.stack, function_index)
             s1 == IF val.t = "closure"
                   THEN call_closure(st, function_index, args, frame_return, yieldable)
                   ELSE IF val.t = "callback"
                   THEN call_callback(st, function_index, args, frame_return, yieldable)
                   ELSE st
         IN IF Panicked(s1) THEN [st |-> s1, res |-> "Panic", err |-> NoError]
            ELSE IF val.t = "closure" THEN [st |-> s1, res |-> "Unfinished", err |-> NoError]
            ELSE IF val.t = "callback" THEN [st |-> s1, res |-> "PendingCallback", err |-> NoError]
            ELSE [st |-> st, res |-> "Err", err |-> TypeError("function", type_name(val))]

\* Thread::unwind: pop frames up to and including the most recent call
\* boundary, close the up-values from its bottom, and cut the stack to the
\* top of the frame that is now the last one, if there is one.
unwind(st) ==
    LET bs == {i \in 1..Len(st.frames) : st.frames[i].frame_return.kind = "CallBoundary"}
    IN IF bs = {}
       THEN Panic([st EXCEPT !.frames = <<>>], "no call boundary found during unwind")
       ELSE LET i == CHOOSE j \in bs : \A k \in bs : k <= j
                s1 == close_upvalues([st EXCEPT !.frames = SubSeq(st.frames, 1, i - 1)],
                                     st.frames[i].bottom)
            IN IF Panicked(s1) \/ Len(s1.frames) = 0 THEN s1
               ELSE [s1 EXCEPT !.stack = resize(s1.stack, Last(s1.frames).top)]
(***************************************************************************)
(* Value arithmetic, tables and strings, as thread.rs uses them.  An       *)
(* Option or Result is a record with ok = FALSE for None / Err.            *)
(***************************************************************************)
Some(val) == [ok |-> TRUE, val |-> val]
None == [ok |-> FALSE, val |-> Nil]
IsNumber(val) == val.t \in {"integer", "nan"}

\* Value::add / subtract / multiply: None unless both operands are numbers
value_add(a, b) ==
    IF ~(IsNumber(a) /\ IsNumber(b)) THEN None
    ELSE IF a.t = "nan" \/ b.t = "nan" THEN Some(NaN) ELSE Some(Integer(a.v + b.v))
value_subtract(a, b) ==
    IF ~(IsNumber(a) /\ IsNumber(b)) THEN None
    ELSE IF a.t = "nan" \/ b.t = "nan" THEN Some(NaN) ELSE Some(Integer(a.v - b.v))
value_multiply(a, b) ==
    IF ~(IsNumber(a) /\ IsNumber(b)) THEN None
    ELSE IF a.t = "nan" \/ b.t = "nan" THEN Some(NaN) ELSE Some(Integer(a.v * b.v))
\* Value::less_than: None unless both are numbers; a NaN compares false
value_less_than(a, b) ==
    IF ~(IsNumber(a) /\ IsNumber(b)) THEN [ok |-> FALSE, val |-> FALSE]
    ELSE [ok |-> TRUE, val |-> a.t = "integer" /\ b.t = "integer" /\ a.v < b.v]

\* Table::get
table_get(tbl, key) ==
    IF \E e \in tbl : e.k = key THEN (CHOOSE e \in tbl : e.k = key).v ELSE Nil
\* Table::set: Err(InvalidTableKey) for a Nil or NaN key; a Nil value removes
table_set_ok(key) == key.t \notin {"nil", "nan"}
table_set(tbl, key, val) ==
    {e \in tbl : e.k # key} \cup (IF val = Nil THEN {} ELSE {[k |-> key, v |-> val]})
\* Table::length: a border of the table (the end of the run 1, 2, ... )
table_length(tbl) ==
    LET has(n) == \E e \in tbl : e.k = Integer(n)
    IN CHOOSE n \in 0..Cardinality(tbl) : (\A i \in 1..n : has(i)) /\ ~has(n + 1)
\* String::concat: Err unless every piece is a string or a number; the
\* result is the pieces' texts one after the other (a text is written as a
\* decimal numeral, a piece being one digit).
concat_ok(vals) == \A i \in 1..Len(vals) : vals[i].t \in {"string", "integer"}
RECURSIVE concat_text(_)
concat_text(vals) ==
    IF vals = <<>> THEN 0 ELSE 10 * concat_text(Front(vals)) + Last(vals).v

\* add_offset
add_offset(pc, offset) == pc + offset
(***************************************************************************)
(* Thread::step_lua, one opcode at a time.  An opcode's outcome is         *)
(*   ctl = "next"     fall through to the instruction counter              *)
(*         "start"    continue 'start (the counter is not touched)         *)
(*         "finished" return Ok(ThreadResult::Finished(vals))              *)
(*         "pending"  return Ok(ThreadResult::PendingCallback(..))         *)
(*         "error"    return Err(err)                                      *)
(* and a panic is recorded in st.panic.                                    *)
(***************************************************************************)
Outcome(st, ctl, vals, err) == [st |-> st, ctl |-> ctl, vals |-> vals, err |-> err]
Next_(st) == Outcome(st, "next", <<>>, NoError)
Restart(st) == Outcome(st, "start", <<>>, NoError)
OobPanic(st) == Next_(Panic(st, "index out of bounds"))
\* match self.call_function(..)? { Unfinished => continue 'start, ret => return Ok(ret) }
AfterCall(r) ==
    CASE r.res = "Unfinished" -> Restart(r.st)
      [] r.res = "PendingCallback" -> Outcome(r.st, "pending", <<>>, NoError)
      [] r.res = "Err" -> Outcome(r.st, "error", <<>>, r.err)
      [] OTHER -> Next_(r.st)

CurClosure(st, f) == st.closures[At(st.stack, f.bottom).v]
CurProto(st, f) == Protos[CurClosure(st, f).proto]
Reg(st, f, r) == At(st.stack, f.base + r)
Const(st, f, k) == CurProto(st, f).constants[k + 1]
RegsOk(st, f, rs) == \A r \in rs : InBounds(st.stack, f.base + r)
SetReg(st, f, r, val) == [st EXCEPT !.stack = Put(st.stack, f.base + r, val)]
SetPc(st, pc) == [st EXCEPT !.frames[Len(st.frames)].pc = pc]

\* OpCode::Move
op_Move(st, f, op) ==
    IF ~RegsOk(st, f, {op.dest, op.source}) THEN OobPanic(st)
    ELSE Next_(SetReg(st, f, op.dest, Reg(st, f, op.source)))

\* OpCode::LoadConstant
op_LoadConstant(st, f, op) ==
    IF ~RegsOk(st, f, {op.dest}) THEN OobPanic(st)
    ELSE Next_(SetReg(st, f, op.dest, Const(st, f, op.constant)))

\* OpCode::LoadNil
op_LoadNil(st, f, op) ==
    IF ~RegsOk(st, f, op.dest..(op.dest + op.count - 1)) THEN OobPanic(st)
    ELSE Next_([st EXCEPT !.stack =
                  [i \in 1..Len(st.stack) |->
                     IF i - 1 - f.base \in op.dest..(op.dest + op.count - 1)
                     THEN Nil ELSE st.stack[i]]])

\* OpCode::NewTable
op_NewTable(st, f, op) ==
    IF ~RegsOk(st, f, {op.dest}) THEN OobPanic(st)
    ELSE Next_(SetReg([st EXCEPT !.tables = Append(st.tables, {})], f, op.dest,
                      TableV(Len(st.tables) + 1)))

\* get_table(..)?
get_table_err(val) == TypeError("table", type_name(val))

\* OpCode::GetTableR, GetTableC
op_GetTable(st, f, op) ==
    LET keyInReg == op.op = "GetTableR"
    IN IF ~RegsOk(st, f, {op.dest, op.table} \cup (IF keyInReg THEN {op.key} ELSE {}))
       THEN OobPanic(st)
       ELSE LET t == Reg(st, f, op.table)
                key == IF keyInReg THEN Reg(st, f, op.key) ELSE Const(st, f, op.key)
            IN IF t.t # "table" THEN Outcome(st, "error", <<>>, get_table_err(t))
               ELSE Next_(SetReg(st, f, op.dest, table_get(st.tables[t.v], key)))

\* OpCode::SetTableRR, SetTableRC, SetTableCR, SetTableCC
op_SetTable(st, f, op) ==
    LET keyInReg == op.op \in {"SetTableRR", "SetTableRC"}
        valInReg == op.op \in {"SetTableRR", "SetTableCR"}
    IN IF ~RegsOk(st, f, {op.table} \cup (IF keyInReg THEN {op.key} ELSE {})
                                   \cup (IF valInReg THEN {op.value} ELSE {}))
       THEN OobPanic(st)
       ELSE LET t == Reg(st, f, op.table)
                key == IF keyInReg THEN Reg(st, f, op.key) ELSE Const(st, f, op.key)
                val == IF valInReg THEN Reg(st, f, op.value) ELSE Const(st, f, op.value)
            IN IF t.t # "table" THEN Outcome(st, "error", <<>>, get_table_err(t))
               ELSE IF ~table_set_ok(key) THEN Next_(Panic(st, "could not set table value"))
               ELSE Next_([st EXCEPT !.tables[t.v] = table_set(@, key, val)])

\* OpCode::SelfR, SelfC (the key is a constant in both)
op_Self(st, f, op) ==
    IF ~RegsOk(st, f, {op.table, op.base, op.base + 1}) THEN OobPanic(st)
    ELSE LET t == Reg(st, f, op.table)
             key == Const(st, f, op.key)
             s1 == SetReg(st, f, op.base + 1, t)
         IN IF t.t # "table" THEN Outcome(s1, "error", <<>>, get_table_err(t))
            ELSE Next_(SetReg(s1, f, op.base, table_get(st.tables[t.v], key)))

\* OpCode::Length
op_Length(st, f, op) ==
    IF ~RegsOk(st, f, {op.dest, op.source}) THEN OobPanic(st)
    ELSE LET t == Reg(st, f, op.source)
         IN IF t.t # "table" THEN Outcome(st, "error", <<>>, get_table_err(t))
            ELSE Next_(SetReg(st, f, op.dest, Integer(table_length(st.tables[t.v]))))

\* OpCode::Concat
op_Concat(st, f, op) ==
    IF ~RegsOk(st, f, {op.dest} \cup (op.source..(op.source + op.count - 1))) THEN OobPanic(st)
    ELSE LET vals == [i \in 1..op.count |-> Reg(st, f, op.source + i - 1)]
         IN IF ~concat_ok(vals) THEN Next_(Panic(st, "called Result::unwrap() on an Err value"))
            ELSE Next_(SetReg(st, f, op.dest, Str(concat_text(vals))))

\* OpCode::AddRR .. MulCC
BinaryOps ==
    {"AddRR", "AddRC", "AddCR", "AddCC", "SubRR", "SubRC", "SubCR", "SubCC",
     "MulRR", "MulRC", "MulCR", "MulCC"}
op_Binary(st, f, op) ==
    LET leftInReg == op.op \in {"AddRR", "AddRC", "SubRR", "SubRC", "MulRR", "MulRC"}
        rightInReg == op.op \in {"AddRR", "AddCR", "SubRR", "SubCR", "MulRR", "MulCR"}
    IN IF ~RegsOk(st, f, {op.dest} \cup (IF leftInReg THEN {op.left} ELSE {})
                                  \cup (IF rightInReg THEN {op.right} ELSE {}))
       THEN OobPanic(st)
       ELSE LET left == IF leftInReg THEN Reg(st, f, op.left) ELSE Const(st, f, op.left)
                right == IF rightInReg THEN Reg(st, f, op.right) ELSE Const(st, f, op.right)
                res == CASE op.op \in {"AddRR", "AddRC", "AddCR", "AddCC"} -> value_add(left, right)
                         [] op.op \in {"SubRR", "SubRC", "SubCR", "SubCC"} -> value_subtract(left, right)
                         [] OTHER -> value_multiply(left, right)
            IN IF ~res.ok THEN Next_(Panic(st, "could not apply binary operator"))
               ELSE Next_(SetReg(st, f, op.dest, res.val))
\* OpCode::Call
op_Call(st, f, op) ==
    AfterCall(call_function(st, f.base + op.func, op.args, Upper(op.returns), f.yieldable))

\* A TailCall that leaves the caller's frame on the frame stack
op_TailCall_KeepsFrame(st, f, op) ==
    LET s1 == close_upvalues(st, f.bottom)
        func == f.base + op.func
        arg_len == to_constant_or(op.args, Len(s1.stack) - func - 1)
        moved == [i \in 1..Len(s1.stack) |->
                    IF i - 1 \in f.bottom..(f.bottom + arg_len)
                    THEN At(s1.stack, func + (i - 1 - f.bottom))
                    ELSE s1.stack[i]]
        s2 == [s1 EXCEPT !.stack = truncate(moved, f.bottom + 1 + arg_len)]
    IN IF Panicked(s1) THEN Next_(s1)
       ELSE IF ~InBounds(s1.stack, func) \/ func + arg_len >= Len(s1.stack) THEN OobPanic(s1)
       ELSE AfterCall(call_function(s2, f.bottom, op.args, f.frame_return, f.yieldable))

\* OpCode::TailCall: close the frame's up-values, move the callee and its
\* arguments down to the frame's bottom, pop the frame, call.
op_TailCall(st, f, op) ==
    LET s1 == close_upvalues(st, f.bottom)
        func == f.base + op.func
        arg_len == to_constant_or(op.args, Len(s1.stack) - func - 1)
        moved == [i \in 1..Len(s1.stack) |->
                    IF i - 1 \in f.bottom..(f.bottom + arg_len)
                    THEN At(s1.stack, func + (i - 1 - f.bottom))
                    ELSE s1.stack[i]]
        s2 == [s1 EXCEPT !.stack = truncate(moved, f.bottom + 1 + arg_len),
                         !.frames = Front(s1.frames)]
    IN IF Panicked(s1) THEN Next_(s1)
       ELSE IF ~InBounds(s1.stack, func) \/ func + arg_len >= Len(s1.stack) THEN OobPanic(s1)
       ELSE AfterCall(call_function(s2, f.bottom, op.args, f.frame_return, f.yieldable))

\* OpCode::Return
op_Return(st, f, op) ==
    LET s1 == close_upvalues(st, f.bottom)
        frames1 == Front(s1.frames)
        start == f.base + op.start
        count == to_constant_or(op.count, Len(s1.stack) - start)
        returns == f.frame_return.returns
        returning == to_constant_or(returns, count)
        copied == [i \in 1..Len(s1.stack) |->
                     IF i - 1 - f.bottom \in 0..(Min(returning, count) - 1)
                     THEN At(s1.stack, start + (i - 1 - f.bottom))
                     ELSE IF i - 1 - f.bottom \in count..(returning - 1) THEN Nil
                     ELSE s1.stack[i]]
    IN IF Panicked(s1) THEN Next_(s1)
       ELSE IF is_variable(op.count) /\ start > Len(s1.stack) THEN OobPanic(s1)
       ELSE IF f.frame_return.kind = "CallBoundary"
       THEN IF start + count > Len(s1.stack) THEN OobPanic(s1)
            ELSE Outcome([s1 EXCEPT !.frames = frames1,
                                    !.stack = IF frames1 # <<>>
                                              THEN resize(s1.stack, Last(frames1).top)
                                              ELSE <<>>],
                         "finished", SubSeq(s1.stack, start + 1, start + count), NoError)
       ELSE IF start + Min(returning, count) > Len(s1.stack)
               \/ f.bottom + returning > Len(s1.stack)
       THEN OobPanic([s1 EXCEPT !.frames = frames1])
       ELSE IF is_variable(returns)
       THEN Restart([s1 EXCEPT !.frames = frames1,
                               !.stack = truncate(copied, f.bottom + returning)])
       ELSE IF frames1 = <<>>
       THEN Next_(Panic([s1 EXCEPT !.frames = frames1, !.stack = copied],
                        "no upper frame to return to"))
       ELSE Restart([s1 EXCEPT !.frames = frames1,
                               !.stack = resize(copied, Last(frames1).top)])

\* OpCode::VarArgs
op_VarArgs(st, f, op) ==
    LET varargs_start == f.bottom + 1
        varargs_len == f.base - varargs_start
        dest == f.base + op.dest
        n == to_constant_or(op.count, varargs_len)
        grown == IF is_variable(op.count) THEN resize(st.stack, dest + varargs_len) ELSE st.stack
    IN IF dest + n > Len(grown) THEN OobPanic(st)
       ELSE Restart([st EXCEPT !.stack =
                       [i \in 1..Len(grown) |->
                          IF i - 1 - dest \in 0..(n - 1)
                          THEN IF i - 1 - dest < varargs_len
                               THEN At(st.stack, varargs_start + (i - 1 - dest))
                               ELSE Nil
                          ELSE grown[i]]])

\* OpCode::Jump; close_upvalues is the register to close from, -1 for none
op_Jump(st, f, op) ==
    LET s1 == SetPc(st, add_offset(f.pc, op.offset))
    IN IF op.close_upvalues < 0 THEN Next_(s1)
       ELSE Next_(close_upvalues(s1, f.base + op.close_upvalues))

\* Up-value binding that allocates a new cell for every captured local
RECURSIVE bind_upvalues_Fresh(_, _, _, _)
bind_upvalues_Fresh(st, f, descs, acc) ==
    IF descs = <<>> THEN [st |-> st, upvalues |-> acc]
    ELSE LET desc == Head(descs)
             ind == f.base + desc.idx
             uv == Len(st.upvalues) + 1
         IN IF desc.kind = "ParentLocal"
            THEN bind_upvalues_Fresh(
                   [st EXCEPT !.upvalues = Append(st.upvalues, OpenCell(ind)),
                              !.open_upvalues =
                                 [k \in (DOMAIN st.open_upvalues) \cup {ind} |->
                                    IF k = ind THEN uv ELSE st.open_upvalues[k]]],
                   f, Tail(descs), Append(acc, uv))
            ELSE bind_upvalues_Fresh(st, f, Tail(descs),
                                     Append(acc, CurClosure(st, f).upvalues[desc.idx + 1]))

\* OpCode::Closure: bind each up-value descriptor (an open cell of the map is
\* reused, a missing one is allocated and inserted), then allocate the closure.
RECURSIVE bind_upvalues(_, _, _, _)
bind_upvalues(st, f, descs, acc) ==
    IF descs = <<>> THEN [st |-> st, upvalues |-> acc]
    ELSE LET desc == Head(descs)
             ind == f.base + desc.idx
         IN IF desc.kind = "ParentLocal"
            THEN IF ind \in DOMAIN st.open_upvalues
                 THEN bind_upvalues(st, f, Tail(descs), Append(acc, st.open_upvalues[ind]))
                 ELSE LET uv == Len(st.upvalues) + 1
                      IN bind_upvalues(
                           [st EXCEPT !.upvalues = Append(st.upvalues, OpenCell(ind)),
                                      !.open_upvalues =
                                         [k \in (DOMAIN st.open_upvalues) \cup {ind} |->
                                            IF k = ind THEN uv ELSE st.open_upvalues[k]]],
                           f, Tail(descs), Append(acc, uv))
            ELSE bind_upvalues(st, f, Tail(descs),
                               Append(acc, CurClosure(st, f).upvalues[desc.idx + 1]))
op_Closure(st, f, op) ==
    LET b == bind_upvalues(st, f, Protos[op.proto].upvalues, <<>>)
        s1 == [b.st EXCEPT !.closures = Append(b.st.closures,
                                               [proto |-> op.proto, upvalues |-> b.upvalues])]
    IN IF ~RegsOk(st, f, {op.dest}) THEN OobPanic(s1)
       ELSE Next_(SetReg(s1, f, op.dest, ClosureV(Len(s1.closures))))

\* OpCode::GetUpValue
op_GetUpValue(st, f, op) ==
    LET uv == CurClosure(st, f).upvalues[op.source + 1]
    IN IF ~RegsOk(st, f, {op.dest})
          \/ (st.upvalues[uv].open /\ st.upvalues[uv].ind >= f.base)
       THEN OobPanic(st)
       ELSE Next_(SetReg(st, f, op.dest, get_upvalue(st, uv)))

\* OpCode::SetUpValue
op_SetUpValue(st, f, op) ==
    LET uv == CurClosure(st, f).upvalues[op.dest + 1]
    IN IF ~RegsOk(st, f, {op.source})
          \/ (st.upvalues[uv].open /\ st.upvalues[uv].ind >= f.base)
       THEN OobPanic(st)
       ELSE IF st.upvalues[uv].open
       THEN Next_([st EXCEPT !.stack = Put(st.stack, st.upvalues[uv].ind, Reg(st, f, op.source))])
       ELSE Next_([st EXCEPT !.upvalues[uv] = ClosedCell(Reg(st, f, op.source))])

\* OpCode::NumericForPrep
op_NumericForPrep(st, f, op) ==
    IF ~RegsOk(st, f, {op.base, op.base + 2}) THEN OobPanic(st)
    ELSE LET res == value_subtract(Reg(st, f, op.base), Reg(st, f, op.base + 2))
         IN IF ~res.ok THEN Next_(Panic(st, "non numeric for loop parameters"))
            ELSE Next_(SetPc(SetReg(st, f, op.base, res.val), add_offset(f.pc, op.jump)))

\* a NumericForLoop that jumps back without copying the counter to the
\* visible induction register
op_NumericForLoop_NoCopy(st, f, op) ==
    IF ~RegsOk(st, f, op.base..(op.base + 3)) THEN OobPanic(st)
    ELSE LET sum == value_add(Reg(st, f, op.base), Reg(st, f, op.base + 2))
             step == Reg(st, f, op.base + 2)
             limit == Reg(st, f, op.base + 1)
             neg == value_less_than(step, Integer(0))
             past_end == IF neg.val THEN value_less_than(sum.val, limit)
                         ELSE value_less_than(limit, sum.val)
             s1 == SetReg(st, f, op.base, sum.val)
         IN IF ~sum.ok \/ ~neg.ok \/ ~past_end.ok
            THEN Next_(Panic(st, "non numeric for loop parameter"))
            ELSE IF past_end.val THEN Next_(s1)
            ELSE Next_(SetPc(s1, add_offset(f.pc, op.jump)))

\* OpCode::NumericForLoop
op_NumericForLoop(st, f, op) ==
    IF ~RegsOk(st, f, op.base..(op.base + 3)) THEN OobPanic(st)
    ELSE LET sum == value_add(Reg(st, f, op.base), Reg(st, f, op.base + 2))
             step == Reg(st, f, op.base + 2)
             limit == Reg(st, f, op.base + 1)
             neg == value_less_than(step, Integer(0))
             past_end == IF neg.val THEN value_less_than(sum.val, limit)
                         ELSE value_less_than(limit, sum.val)
             s1 == SetReg(st, f, op.base, sum.val)
         IN IF ~sum.ok \/ ~neg.ok \/ ~past_end.ok
            THEN Next_(Panic(st, "non numeric for loop parameter"))
            ELSE IF past_end.val THEN Next_(s1)
            ELSE Next_(SetPc(SetReg(s1, f, op.base + 3, sum.val), add_offset(f.pc, op.jump)))

\* OpCode::GenericForCall
op_GenericForCall(st, f, op) ==
    LET base == f.base + op.base
        grown == resize(st.stack, base + 6)
        s1 == [st EXCEPT !.stack = [i \in 1..Len(grown) |->
                                      IF i - 1 \in (base + 3)..(base + 5)
                                      THEN grown[i - 3] ELSE grown[i]]]
    IN AfterCall(call_function(s1, base + 3, VarCount_constant(2),
                               Upper(VarCount_constant(op.var_count)), f.yieldable))

\* OpCode::GenericForLoop
op_GenericForLoop(st, f, op) ==
    IF ~RegsOk(st, f, {op.base, op.base + 1}) THEN OobPanic(st)
    ELSE IF to_bool(Reg(st, f, op.base + 1))
    THEN Next_(SetPc(SetReg(st, f, op.base, Reg(st, f, op.base + 1)), add_offset(f.pc, op.jump)))
    ELSE Next_(st)

\* The match on the opcode.  f is the top frame, its pc already advanced.
Dispatch(st, f, op) ==
    CASE op.op = "Move" -> op_Move(st, f, op)
      [] op.op = "LoadConstant" -> op_LoadConstant(st, f, op)
      [] op.op = "LoadNil" -> op_LoadNil(st, f, op)
      [] op.op = "NewTable" -> op_NewTable(st, f, op)
      [] op.op \in {"GetTableR", "GetTableC"} -> op_GetTable(st, f, op)
      [] op.op \in {"SetTableRR", "SetTableRC", "SetTableCR", "SetTableCC"} -> op_SetTable(st, f, op)
      [] op.op = "Call" -> op_Call(st, f, op)
      [] op.op = "TailCall" -> op_TailCall(st, f, op)
      [] op.op = "Return" -> op_Return(st, f, op)
      [] op.op = "VarArgs" -> op_VarArgs(st, f, op)
      [] op.op = "Jump" -> op_Jump(st, f, op)
      [] op.op = "Closure" -> op_Closure(st, f, op)
      [] op.op = "NumericForPrep" -> op_NumericForPrep(st, f, op)
      [] op.op = "NumericForLoop" -> op_NumericForLoop(st, f, op)
      [] op.op = "GenericForCall" -> op_GenericForCall(st, f, op)
      [] op.op = "GenericForLoop" -> op_GenericForLoop(st, f, op)
      [] op.op \in {"SelfR", "SelfC"} -> op_Self(st, f, op)
      [] op.op = "Concat" -> op_Concat(st, f, op)
      [] op.op = "GetUpValue" -> op_GetUpValue(st, f, op)
      [] op.op = "SetUpValue" -> op_SetUpValue(st, f, op)
      [] op.op = "Length" -> op_Length(st, f, op)
      [] op.op \in BinaryOps -> op_Binary(st, f, op)

\* One turn of step_lua's loops: the frame is looked up as at 'start, the
\* opcode at pc is fetched, pc is advanced and the opcode is executed.
step_opcode(st) ==
    IF st.frames = <<>> THEN Next_(Panic(st, "no current ThreadState frame"))
    ELSE LET f0 == Last(st.frames)
         IN IF f0.frame_type # "Lua"
            THEN Next_(Panic(st, "step_lua called when top frame is not a Lua frame"))
            ELSE IF ~InBounds(st.stack, f0.bottom) \/ f0.base > Len(st.stack)
            THEN OobPanic(st)
            ELSE IF At(st.stack, f0.bottom).t # "closure"
            THEN Next_(Panic(st, "value is not a closure"))
            ELSE IF f0.pc >= Len(CurProto(st, f0).opcodes) THEN OobPanic(st)
            ELSE LET s1 == SetPc(st, f0.pc + 1)
                 IN Dispatch(s1, Last(s1.frames), CurProto(st, f0).opcodes[f0.pc + 1])
(***************************************************************************)
(* Metamethod dispatch (src/src/meta_ops.rs).  The operations are pure     *)
(* functions of the heap and their operands; the heap holds tables (raw    *)
(* entries and an optional metatable) and userdata (an optional            *)
(* metatable).  A metatable is a table whose entries are keyed by the      *)
(* metamethod names.                                                       *)
(***************************************************************************)
UserDataV(i) == [t |-> "userdata", v |-> i]
\* the synthetic callbacks that index, new_index and call build: the first
\* two capture nothing, the third captures the receiver and its __call value
IndexCallback == [t |-> "index_callback", v |-> 0]
NewIndexCallback == [t |-> "new_index_callback", v |-> 0]
CallCallback(v, f) == [t |-> "call_callback", v |-> << v, f >>]
\* Value::Function(_)
IsFunction(val) ==
    val.t \in {"closure", "callback", "index_callback", "new_index_callback", "call_callback"}
\* Value::Table(_) | Value::UserData(_)
IsObject(val) == val.t \in {"table", "userdata"}
is_nil(val) == val.t = "nil"
\* Value::type_name over the values of this layer
meta_type_name(val) ==
    IF IsFunction(val) THEN "function"
    ELSE IF val.t = "userdata" THEN "userdata"
    ELSE type_name(val)

\* MetaMethod::name, as the interned string that keys a metatable
MetaMethods == {"Index", "NewIndex", "Call", "Add", "Sub", "Eq"}
MetaMethod_name(m) ==
    Str(CASE m = "Index" -> 101
          [] m = "NewIndex" -> 102
          [] m = "Call" -> 103
          [] m = "Add" -> 104
          [] m = "Sub" -> 105
          [] m = "Eq" -> 106)

\* MetaOperatorError and MetaCallError
NoMetaError == [kind |-> "none", method |-> "", a |-> "", b |-> ""]
MetaOperatorError_Call(m, e) == [kind |-> "Call", method |-> m, a |-> e, b |-> ""]
MetaOperatorError_Unary(m, ty) == [kind |-> "Unary", method |-> m, a |-> ty, b |-> ""]
MetaOperatorError_Binary(m, l, r) == [kind |-> "Binary", method |-> m, a |-> l, b |-> r]
IndexKeyError == [kind |-> "IndexKeyError", method |-> "", a |-> "", b |-> ""]
\* an error of the callback layer that carries a MetaCallError
CallbackCallError(e) == [kind |-> "MetaCallError", method |-> "", a |-> e, b |-> ""]

\* MetaResult<N> and the Result / Option around it
MetaResult_Value(v) ==
    [tag |-> "Value", value |-> v, function |-> Nil, args |-> << >>, err |-> NoMetaError]
MetaResult_Call(function, args) ==
    [tag |-> "Call", value |-> Nil, function |-> function, args |-> args, err |-> NoMetaError]
MetaResult_Err(e) ==
    [tag |-> "Err", value |-> Nil, function |-> Nil, args |-> << >>, err |-> e]
\* Ok(None) of new_index
MetaResult_None ==
    [tag |-> "None", value |-> Nil, function |-> Nil, args |-> << >>, err |-> NoMetaError]
\* Result<Function, MetaCallError>
CallOk(f) == [ok |-> TRUE, val |-> f, err |-> ""]
CallErr(ty) == [ok |-> FALSE, val |-> Nil, err |-> ty]

MetaTable(entries, metatable) == [entries |-> entries, metatable |-> metatable]
Entry(k, v) == [k |-> k, v |-> v]

get_metatable(h, val) ==
    CASE val.t = "table" -> h.tables[val.v].metatable
      [] val.t = "userdata" -> h.userdata[val.v].metatable
      [] OTHER -> None
\* Table::get of a metatable at a metamethod's name
metatable_get(h, mt, m) == table_get(h.tables[mt.val.v].entries, MetaMethod_name(m))
get_metamethod(h, val, m) ==
    LET mt == get_metatable(h, val)
    IN IF ~mt.ok THEN None
       ELSE IF is_nil(metatable_get(h, mt, m)) THEN None
       ELSE Some(metatable_get(h, mt, m))

\* call(ctx, v)
call(h, v) ==
    IF IsFunction(v) THEN CallOk(v)
    ELSE LET metatable == get_metatable(h, v)
         IN IF ~metatable.ok THEN CallErr(meta_type_name(v))
            ELSE LET f == metatable_get(h, metatable, "Call")
                 IN IF IsFunction(f) \/ IsObject(f) THEN CallOk(CallCallback(v, f))
                    ELSE CallErr(meta_type_name(f))

\* index that asks the metatable before the table's own entry
index_MetatableFirst(h, table, key) ==
    LET mt == get_metatable(h, table)
        idx == IF mt.ok THEN metatable_get(h, mt, "Index") ELSE Nil
    IN IF ~IsObject(table) \/ (table.t = "userdata" /\ is_nil(idx))
       THEN MetaResult_Err(MetaOperatorError_Unary("Index", meta_type_name(table)))
       ELSE IF is_nil(idx)
       THEN MetaResult_Value(table_get(h.tables[table.v].entries, key))
       ELSE IF IsObject(idx) THEN MetaResult_Call(IndexCallback, << idx, key >>)
       ELSE IF call(h, idx).ok THEN MetaResult_Call(call(h, idx).val, << table, key >>)
       ELSE MetaResult_Err(MetaOperatorError_Call("Index", call(h, idx).err))
\* index(ctx, table, key)
index(h, table, key) ==
    LET mt == get_metatable(h, table)
        idx == IF mt.ok THEN metatable_get(h, mt, "Index") ELSE Nil
    IN IF table.t = "table" /\ ~is_nil(table_get(h.tables[table.v].entries, key))
       THEN MetaResult_Value(table_get(h.tables[table.v].entries, key))
       ELSE IF table.t = "table" /\ is_nil(idx) THEN MetaResult_Value(Nil)
       ELSE IF table.t = "userdata" /\ mt.ok /\ is_nil(idx)
       THEN MetaResult_Err(MetaOperatorError_Unary("Index", meta_type_name(table)))
       ELSE IF ~(table.t = "table" \/ (table.t = "userdata" /\ mt.ok))
       THEN MetaResult_Err(MetaOperatorError_Unary("Index", meta_type_name(table)))
       ELSE IF IsObject(idx) THEN MetaResult_Call(IndexCallback, << idx, key >>)
       ELSE IF call(h, idx).ok THEN MetaResult_Call(call(h, idx).val, << table, key >>)
       ELSE MetaResult_Err(MetaOperatorError_Call("Index", call(h, idx).err))

\* Table::set_value on the heap: Err(InvalidTableKey) for a Nil or NaN key
set_value(h, table, key, value) ==
    IF table_set_ok(key)
    THEN [heap |-> [h EXCEPT !.tables[table.v].entries = table_set(@, key, value)],
          res |-> MetaResult_None]
    ELSE [heap |-> h, res |-> MetaResult_Err(IndexKeyError)]
Pure(h, res) == [heap |-> h, res |-> res]

\* new_index that asks __newindex before the table's own entry
new_index_MetatableFirst(h, table, key, value) ==
    LET mt == get_metatable(h, table)
        idx == IF mt.ok THEN metatable_get(h, mt, "NewIndex") ELSE Nil
    IN IF table.t = "table" /\ is_nil(idx) THEN set_value(h, table, key, value)
       ELSE IF ~IsObject(table) \/ is_nil(idx)
       THEN Pure(h, MetaResult_Err(MetaOperatorError_Unary("NewIndex", meta_type_name(table))))
       ELSE IF IsObject(idx)
       THEN Pure(h, MetaResult_Call(NewIndexCallback, << idx, key, value >>))
       ELSE IF call(h, idx).ok
       THEN Pure(h, MetaResult_Call(call(h, idx).val, << table, key, value >>))
       ELSE Pure(h, MetaResult_Err(MetaOperatorError_Call("NewIndex", call(h, idx).err)))
\* new_index(ctx, table, key, value)
new_index(h, table, key, value) ==
    LET mt == get_metatable(h, table)
        idx == IF mt.ok THEN metatable_get(h, mt, "NewIndex") ELSE Nil
    IN IF table.t = "table" /\ ~is_nil(table_get(h.tables[table.v].entries, key))
       THEN set_value(h, table, key, value)
       ELSE IF table.t = "table" /\ is_nil(idx) THEN set_value(h, table, key, value)
       ELSE IF table.t = "userdata" /\ mt.ok /\ is_nil(idx)
       THEN Pure(h, MetaResult_Err(MetaOperatorError_Unary("NewIndex", meta_type_name(table))))
       ELSE IF ~(table.t = "table" \/ (table.t = "userdata" /\ mt.ok))
       THEN Pure(h, MetaResult_Err(MetaOperatorError_Unary("NewIndex", meta_type_name(table))))
       ELSE IF IsObject(idx)
       THEN Pure(h, MetaResult_Call(NewIndexCallback, << idx, key, value >>))
       ELSE IF call(h, idx).ok
       THEN Pure(h, MetaResult_Call(call(h, idx).val, << table, key, value >>))
       ELSE Pure(h, MetaResult_Err(MetaOperatorError_Call("NewIndex", call(h, idx).err)))

\* the const_op closures of add and subtract
const_op(method, a, b) ==
    CASE method = "Add" -> value_add(a, b)
      [] method = "Sub" -> value_subtract(a, b)

\* one arm of meta_metaop: the metamethod of side, called with [lhs, rhs]
metaop_call(h, m, method, lhs, rhs) ==
    IF call(h, m).ok THEN MetaResult_Call(call(h, m).val, << lhs, rhs >>)
    ELSE MetaResult_Err(MetaOperatorError_Call(method, call(h, m).err))

\* meta_metaop that asks the right operand first
meta_metaop_RhsFirst(h, lhs, rhs, method) ==
    LET binary_err ==
            MetaResult_Err(MetaOperatorError_Binary(method, meta_type_name(lhs),
                                                    meta_type_name(rhs)))
        ml == get_metamethod(h, lhs, method)
        mr == get_metamethod(h, rhs, method)
    IN IF IsObject(lhs) \/ IsObject(rhs)
       THEN IF mr.ok THEN metaop_call(h, mr.val, method, lhs, rhs)
            ELSE IF ml.ok THEN metaop_call(h, ml.val, method, lhs, rhs)
            ELSE binary_err
       ELSE IF const_op(method, lhs, rhs).ok
       THEN MetaResult_Value(const_op(method, lhs, rhs).val)
       ELSE binary_err
\* meta_metaop(ctx, lhs, rhs, method, const_op)
meta_metaop(h, lhs, rhs, method) ==
    LET binary_err ==
            MetaResult_Err(MetaOperatorError_Binary(method, meta_type_name(lhs),
                                                    meta_type_name(rhs)))
        ml == get_metamethod(h, lhs, method)
        mr == get_metamethod(h, rhs, method)
    IN IF IsObject(lhs) /\ IsObject(rhs)
       THEN IF ml.ok THEN metaop_call(h, ml.val, method, lhs, rhs)
            ELSE IF mr.ok THEN metaop_call(h, mr.val, method, lhs, rhs)
            ELSE binary_err
       ELSE IF IsObject(lhs)
       THEN IF ml.ok THEN metaop_call(h, ml.val, method, lhs, rhs) ELSE binary_err
       ELSE IF IsObject(rhs)
       THEN IF mr.ok THEN metaop_call(h, mr.val, method, lhs, rhs) ELSE binary_err
       ELSE IF const_op(method, lhs, rhs).ok
       THEN MetaResult_Value(const_op(method, lhs, rhs).val)
       ELSE binary_err

\* Boolean, Number (an f64 with the integral value n) and Thread values.  An
\* i64 or f64 of magnitude 2^53 + d, beyond the integers an f64 holds
\* exactly, is written with the offset d: the f64s there are the even d.
Boolean(b) == [t |-> "boolean", v |-> b]
Number(n) == [t |-> "number", v |-> n]
ThreadV(i) == [t |-> "thread", v |-> i]
BigInteger(d) == [t |-> "integer", v |-> d, e |-> 53]
BigNumber(d) == [t |-> "number", v |-> d, e |-> 53]
IsBig(val) == "e" \in DOMAIN val
\* `a as f64`: exact below 2^53, above it the nearest f64, a tie going to the
\* even mantissa
as_f64(a) ==
    IF ~IsBig(a) THEN Number(a.v)
    ELSE IF a.v % 2 = 0 THEN BigNumber(a.v)
    ELSE IF a.v % 4 = 1 THEN BigNumber(a.v - 1)
    ELSE BigNumber(a.v + 1)
\* f64 ==: a NaN equals nothing
f64_eq(a, b) == a.t = "number" /\ b.t = "number" /\ a = b

\* the Table / Table and UserData / UserData arm of equal for two objects of
\* distinct identity
equal_by_eq(h, lhs, rhs) ==
    IF get_metamethod(h, lhs, "Eq").ok
    THEN IF call(h, get_metamethod(h, lhs, "Eq").val).ok
         THEN MetaResult_Call(call(h, get_metamethod(h, lhs, "Eq").val).val, << lhs, rhs >>)
         ELSE MetaResult_Err(MetaOperatorError_Call("Eq",
                                 call(h, get_metamethod(h, lhs, "Eq").val).err))
    ELSE IF get_metamethod(h, rhs, "Eq").ok
    THEN IF call(h, get_metamethod(h, rhs, "Eq").val).ok
         THEN MetaResult_Call(call(h, get_metamethod(h, rhs, "Eq").val).val, << lhs, rhs >>)
         ELSE MetaResult_Err(MetaOperatorError_Call("Eq",
                                 call(h, get_metamethod(h, rhs, "Eq").val).err))
    ELSE MetaResult_Value(Boolean(FALSE))

\* equal(ctx, lhs, rhs)
equal(h, lhs, rhs) ==
    CASE lhs.t = "nil" -> MetaResult_Value(Boolean(rhs.t = "nil"))
      [] lhs.t = "boolean" -> MetaResult_Value(Boolean(rhs.t = "boolean" /\ lhs.v = rhs.v))
      [] lhs.t = "integer" ->
           IF rhs.t = "integer" THEN MetaResult_Value(Boolean(lhs = rhs))
           ELSE IF rhs.t \in {"number", "nan"}
           THEN MetaResult_Value(Boolean(f64_eq(as_f64(lhs), rhs)))
           ELSE MetaResult_Value(Boolean(FALSE))
      [] lhs.t \in {"number", "nan"} ->
           IF rhs.t \in {"number", "nan"} THEN MetaResult_Value(Boolean(f64_eq(lhs, rhs)))
           ELSE IF rhs.t = "integer"
           THEN MetaResult_Value(Boolean(f64_eq(as_f64(rhs), lhs)))
           ELSE MetaResult_Value(Boolean(FALSE))
      [] lhs.t = "string" -> MetaResult_Value(Boolean(rhs.t = "string" /\ lhs.v = rhs.v))
      [] IsFunction(lhs) -> MetaResult_Value(Boolean(IsFunction(rhs) /\ lhs = rhs))
      [] lhs.t = "thread" -> MetaResult_Value(Boolean(rhs.t = "thread" /\ lhs.v = rhs.v))
      [] lhs.t \in {"table", "userdata"} ->
           IF rhs.t # lhs.t THEN MetaResult_Value(Boolean(FALSE))
           ELSE IF lhs.v = rhs.v THEN MetaResult_Value(Boolean(TRUE))
           ELSE equal_by_eq(h, lhs, rhs)
\* CallbackReturn and the error a callback can raise
CallbackReturn_Return(stk) ==
    [tag |-> "Return", stack |-> stk, function |-> Nil, err |-> NoMetaError]
CallbackReturn_Call(function, stk) ==
    [tag |-> "Call", stack |-> stk, function |-> function, err |-> NoMetaError]
CallbackError(e) == [tag |-> "Err", stack |-> << >>, function |-> Nil, err |-> e]
\* Stack::get: Nil beyond the top
stack_get(stk, i) == IF i < Len(stk) THEN At(stk, i) ELSE Nil

\* the callback of index following two links in one invocation
index_callback_TwoLinks(h, stk) ==
    LET r1 == index(h, stack_get(stk, 0), stack_get(stk, 1))
        r == IF r1.tag = "Call" /\ r1.function = IndexCallback
             THEN index(h, r1.args[1], r1.args[2])
             ELSE r1
    IN CASE r.tag = "Value" -> Pure(h, CallbackReturn_Return(<< r.value >>))
         [] r.tag = "Call" -> Pure(h, CallbackReturn_Call(r.function, r.args))
         [] r.tag = "Err" -> Pure(h, CallbackError(r.err))
\* the body of the callback that index builds for a Table / UserData __index
index_callback(h, stk) ==
    LET r == index(h, stack_get(stk, 0), stack_get(stk, 1))
    IN CASE r.tag = "Value" -> Pure(h, CallbackReturn_Return(<< r.value >>))
         [] r.tag = "Call" -> Pure(h, CallbackReturn_Call(r.function, r.args))
         [] r.tag = "Err" -> Pure(h, CallbackError(r.err))

\* the body of the callback that new_index builds
new_index_callback(h, stk) ==
    LET r == new_index(h, stack_get(stk, 0), stack_get(stk, 1), stack_get(stk, 2))
    IN CASE r.res.tag = "Call" ->
              [heap |-> r.heap, res |-> CallbackReturn_Call(r.res.function, r.res.args)]
         [] r.res.tag = "None" -> [heap |-> r.heap, res |-> CallbackReturn_Return(<< >>)]
         [] r.res.tag = "Err" -> [heap |-> r.heap, res |-> CallbackError(r.res.err)]

\* the callback of call putting the receiver behind the arguments
call_callback_body_Append(h, captured, stk) ==
    LET v == captured[1]
        f == captured[2]
    IN IF call(h, f).ok
       THEN Pure(h, CallbackReturn_Call(call(h, f).val, stk \o << v >>))
       ELSE Pure(h, CallbackError(CallbackCallError(call(h, f).err)))
\* the body of the callback that call builds: push_front(v), then call(f)
call_callback_body(h, captured, stk) ==
    LET v == captured[1]
        f == captured[2]
    IN IF call(h, f).ok
       THEN Pure(h, CallbackReturn_Call(call(h, f).val, << v >> \o stk))
       ELSE Pure(h, CallbackError(CallbackCallError(call(h, f).err)))

\* one invocation of a synthetic callback
invoke(h, function, stk) ==
    CASE function.t = "index_callback" -> index_callback(h, stk)
      [] function.t = "new_index_callback" -> new_index_callback(h, stk)
      [] function.t = "call_callback" -> call_callback_body(h, function.v, stk)
IsSynthetic(function) ==
    function.t \in {"index_callback", "new_index_callback", "call_callback"}

(***************************************************************************)
(* The heap the operations are applied to: a plain table, __index /        *)
(* __newindex / __call chains of depth one and two that end in it, a       *)
(* table whose metamethods are functions, a table that is its own          *)
(* __newindex and __call and whose __index chain is a cycle of two, a      *)
(* table whose metamethods are not                                         *)
(* callable, a table with an empty metatable, and userdata over the same   *)
(* metatables.                                                             *)
(***************************************************************************)
HostFn2 == CallbackV(2)
InitHeap ==
    [tables |-> <<
        \* 1: v = { [s1] = 7 }
        MetaTable({Entry(Str(1), Integer(7))}, None),
        \* 2: the metatable of t1: chains to v
        MetaTable({Entry(MetaMethod_name("Index"), TableV(1)),
                   Entry(MetaMethod_name("NewIndex"), TableV(1)),
                   Entry(MetaMethod_name("Call"), HostFn),
                   Entry(MetaMethod_name("Add"), HostFn2),
                   Entry(MetaMethod_name("Eq"), HostFn2)}, None),
        \* 3: t1
        MetaTable({}, Some(TableV(2))),
        \* 4: the metatable of t0: chains to t1
        MetaTable({Entry(MetaMethod_name("Index"), TableV(3)),
                   Entry(MetaMethod_name("NewIndex"), TableV(3)),
                   Entry(MetaMethod_name("Call"), TableV(3))}, None),
        \* 5: t0 = { [s2] = 9 }
        MetaTable({Entry(Str(2), Integer(9))}, Some(TableV(4))),
        \* 6: a metatable of functions
        MetaTable({Entry(MetaMethod_name("Index"), HostFn),
                   Entry(MetaMethod_name("NewIndex"), HostFn),
                   Entry(MetaMethod_name("Call"), HostFn),
                   Entry(MetaMethod_name("Add"), HostFn),
                   Entry(MetaMethod_name("Eq"), HostFn)}, None),
        \* 7: a table with function metamethods, { [s1] = 3 }
        MetaTable({Entry(Str(1), Integer(3))}, Some(TableV(6))),
        \* 8: setmetatable(t, {__index = u, __newindex = t, __call = t})
        MetaTable({Entry(MetaMethod_name("Index"), TableV(14)),
                   Entry(MetaMethod_name("NewIndex"), TableV(9)),
                   Entry(MetaMethod_name("Call"), TableV(9))}, None),
        \* 9: t
        MetaTable({}, Some(TableV(8))),
        \* 10: a metatable whose metamethods are numbers
        MetaTable({Entry(MetaMethod_name("Index"), Integer(5)),
                   Entry(MetaMethod_name("NewIndex"), Integer(5)),
                   Entry(MetaMethod_name("Call"), Integer(5)),
                   Entry(MetaMethod_name("Add"), Integer(5)),
                   Entry(MetaMethod_name("Eq"), Integer(5))}, None),
        \* 11: a table over it
        MetaTable({}, Some(TableV(10))),
        \* 12: an empty metatable
        MetaTable({}, None),
        \* 13: a table over it
        MetaTable({}, Some(TableV(12))),
        \* 14: u, with setmetatable(u, {__index = t, __call = v})
        MetaTable({}, Some(TableV(15))),
        \* 15: the metatable of u; v cannot be called
        MetaTable({Entry(MetaMethod_name("Index"), TableV(9)),
                   Entry(MetaMethod_name("Call"), TableV(1))}, None) >>,
     userdata |-> <<
        [metatable |-> None],
        [metatable |-> Some(TableV(6))],
        [metatable |-> Some(TableV(10))],
        [metatable |-> Some(TableV(12))],
        [metatable |-> Some(TableV(4))] >>]

\* the values the embedder applies the operations to
Receivers ==
    {TableV(i) : i \in {1, 3, 5, 7, 9, 11, 13}} \cup {UserDataV(i) : i \in 1..5}
        \cup {Integer(1), Nil, HostFn}
Keys == {Str(1), Str(2), Nil}
\* the keys new_index is applied with: one that the plain table holds, and Nil
NewKeys == {Str(1), Nil}
NewValues == {Integer(1), Nil}
BinaryOperands ==
    {TableV(3), TableV(7), TableV(11), TableV(13), UserDataV(2), Integer(1), Nil}
BinaryMethods == {"Add", "Sub"}
\* the values call is applied to, and the arguments they are called with
Callees == Receivers \cup {TableV(14)}
CallArgs == {<< >>, << Integer(1) >>}

\* the operation in progress: its operands, what it returned, the call the
\* caller has to make for it, and what the last callback invocation returned
NoPending == [active |-> FALSE, function |-> Nil, stack |-> << >>]
Pending(function, stk) == [active |-> TRUE, function |-> function, stack |-> stk]
NoReturn == [tag |-> "none", stack |-> << >>, function |-> Nil, err |-> NoMetaError]
MetaResult_Function(f) ==
    [tag |-> "Function", value |-> Nil, function |-> f, args |-> << >>, err |-> NoMetaError]
MetaState(h, before, op, args, result, pending, last, steps) ==
    [heap |-> h, before |-> before, op |-> op, args |-> args, result |-> result,
     pending |-> pending, last |-> last, steps |-> steps]
MetaInit == MetaState(InitHeap, InitHeap, "idle", << >>, MetaResult_None, NoPending, NoReturn, 0)
\* the call a MetaResult asks its caller to make
PendingOf(result) ==
    IF result.tag = "Call" THEN Pending(result.function, result.args) ELSE NoPending
(***************************************************************************)
(* async_callback.rs: a Sequence whose steps are the polls of a suspending *)
(* routine.  The routine is the code of the embedder; it is given as the   *)
(* list of what it does between its suspension points.                     *)
(***************************************************************************)
\* SeqOp, with None for Option<SeqOp>; target is the function or the thread
SeqOp_None == [op |-> "None", target |-> 0, bottom |-> 0]
SeqOp_Pending == [op |-> "Pending", target |-> 0, bottom |-> 0]
SeqOp_Call(function, bottom) == [op |-> "Call", target |-> function, bottom |-> bottom]
SeqOp_Yield(to_thread, bottom) == [op |-> "Yield", target |-> to_thread, bottom |-> bottom]
SeqOp_Resume(thread, bottom) == [op |-> "Resume", target |-> thread, bottom |-> bottom]

\* SequenceReturn
SequenceReturn_Return == [ret |-> "Return", target |-> 0]
SequenceReturn_Call(function) == [ret |-> "Call", target |-> function]
SequenceReturn_Yield(to_thread) == [ret |-> "Yield", target |-> to_thread]
SequenceReturn_Resume(thread) == [ret |-> "Resume", target |-> thread]

\* Option<Error>
NoErr == [some |-> FALSE, err |-> 0]
SomeErr(e) == [some |-> TRUE, err |-> e]

\* Result<SequencePoll, Error> of poll and error, or the panic that ended
\* the call; NotPolled before the first poll
SequencePoll(tag, target, bottom) ==
    [tag |-> tag, target |-> target, bottom |-> bottom, err |-> 0, msg |-> ""]
PollErr(e) == [tag |-> "Err", target |-> 0, bottom |-> 0, err |-> e, msg |-> ""]
PollPanic(msg) == [tag |-> "Panic", target |-> 0, bottom |-> 0, err |-> 0, msg |-> msg]
NotPolled == SequencePoll("NotPolled", 0, 0)
TailVariants == {"Return", "TailCall", "TailYield", "TailResume"}
IsTerminal(res) == res.tag \in TailVariants \cup {"Err", "Panic"}

\* what the routine does next: `seq.op(..).await` (followed by `?` when try),
\* an operation's future polled once and dropped, an await of a future that
\* is not SequenceState's and is pending once, an operation's future
\* dropped without a poll, try_enter(|..| stack.consume::<Table>(ctx))?, and
\* the return of a SequenceReturn; 3 is the error of consume on a value that
\* is no table
Await(op, try) == [k |-> "await", op |-> op, try |-> try, ret |-> SequenceReturn_Return]
Started(op) == [k |-> "started", op |-> op, try |-> FALSE, ret |-> SequenceReturn_Return]
Foreign == [k |-> "foreign", op |-> SeqOp_None, try |-> FALSE, ret |-> SequenceReturn_Return]
Unpolled(op) == [k |-> "unpolled", op |-> op, try |-> FALSE, ret |-> SequenceReturn_Return]
Consume == [k |-> "consume", op |-> SeqOp_None, try |-> FALSE, ret |-> SequenceReturn_Return]
Return_(ret) == [k |-> "return", op |-> SeqOp_None, try |-> FALSE, ret |-> ret]

\* Poll<Result<SequenceReturn, LocalError>> of the routine, Running while
\* it has neither suspended nor completed
Running == [tag |-> "Running", ret |-> SequenceReturn_Return, err |-> 0, msg |-> ""]
Poll_Pending == [tag |-> "Pending", ret |-> SequenceReturn_Return, err |-> 0, msg |-> ""]
Poll_Ready(ret) == [tag |-> "Ready", ret |-> ret, err |-> 0, msg |-> ""]
Poll_ReadyErr(e) == [tag |-> "ReadyErr", ret |-> SequenceReturn_Return, err |-> e, msg |-> ""]
Unwinding(msg) == [tag |-> "Panic", ret |-> SequenceReturn_Return, err |-> 0, msg |-> msg]

\* what an operation returned to the routine
Delivery(at, op, res, e) == [at |-> at, op |-> op, res |-> res, err |-> e]

\* Shared::set_next_op
set_next_op_Overwrite(p, op) == [p EXCEPT !.next_op = op, !.started = @ + 1]
set_next_op(p, op) ==
    IF p.next_op # SeqOp_None
    THEN [p EXCEPT !.out = Unwinding("SequenceState async method not awaited")]
    ELSE [p EXCEPT !.next_op = op, !.started = @ + 1]

\* wait_once().await: pending at its first poll (done = false), ready at the
\* next; waiting is its flag done
wait_once(p) ==
    IF p.waiting THEN [p EXCEPT !.waiting = FALSE]
    ELSE [p EXCEPT !.waiting = TRUE, !.out = Poll_Pending]

\* SequenceState::pending
SequenceState_pending_NoAssert(p) ==
    IF ~p.waiting
    THEN IF set_next_op(p, SeqOp_Pending).out = Running
         THEN wait_once(set_next_op(p, SeqOp_Pending))
         ELSE set_next_op(p, SeqOp_Pending)
    ELSE [wait_once(p) EXCEPT
             !.log = Append(@, Delivery(p.pc, "Pending", "Unit", 0))]
SequenceState_pending(p) ==
    IF ~p.waiting
    THEN IF set_next_op(p, SeqOp_Pending).out = Running
         THEN wait_once(set_next_op(p, SeqOp_Pending))
         ELSE set_next_op(p, SeqOp_Pending)
    ELSE IF p.error.some
    THEN [wait_once(p) EXCEPT
             !.out = Unwinding("SequencePoll::Pending cannot be followed by an error")]
    ELSE [wait_once(p) EXCEPT
             !.log = Append(@, Delivery(p.pc, "Pending", "Unit", 0))]

\* SequenceState::call, yield_to and resume: the three differ in their SeqOp
suspend_AlwaysOk(p, op) ==
    IF ~p.waiting
    THEN IF set_next_op(p, op).out = Running
         THEN wait_once(set_next_op(p, op))
         ELSE set_next_op(p, op)
    ELSE [wait_once(p) EXCEPT
             !.log = Append(@, Delivery(p.pc, op.op, "Ok", 0))]
suspend(p, op) ==
    IF ~p.waiting
    THEN IF set_next_op(p, op).out = Running
         THEN wait_once(set_next_op(p, op))
         ELSE set_next_op(p, op)
    ELSE IF p.error.some
    THEN [wait_once(p) EXCEPT
             !.error = NoErr,
             !.log = Append(@, Delivery(p.pc, op.op, "Err", p.error.err))]
    ELSE [wait_once(p) EXCEPT
             !.log = Append(@, Delivery(p.pc, op.op, "Ok", 0))]
SequenceState_call_BottomZero(p, func, bottom) == suspend(p, SeqOp_Call(func, 0))
SequenceState_call(p, func, bottom) == suspend(p, SeqOp_Call(func, bottom))
SequenceState_yield_to(p, to_thread, bottom) == suspend(p, SeqOp_Yield(to_thread, bottom))
SequenceState_resume(p, thread, bottom) == suspend(p, SeqOp_Resume(thread, bottom))
operation(p, op) ==
    CASE op.op = "Pending" -> SequenceState_pending(p)
      [] op.op = "Call" -> SequenceState_call(p, op.target, op.bottom)
      [] op.op = "Yield" -> SequenceState_yield_to(p, op.target, op.bottom)
      [] op.op = "Resume" -> SequenceState_resume(p, op.target, op.bottom)

\* the routine, run from where it stands to its next suspension, its
\* completion or a panic
LastDelivery(p) == p.log[Len(p.log)]
routine_step(code, p) ==
    LET I == code[p.pc] IN
    CASE I.k = "await" ->
           IF operation(p, I.op).out # Running THEN operation(p, I.op)
           ELSE IF I.try /\ LastDelivery(operation(p, I.op)).res = "Err"
           THEN [operation(p, I.op) EXCEPT
                    !.out = Poll_ReadyErr(LastDelivery(operation(p, I.op)).err)]
           ELSE [operation(p, I.op) EXCEPT !.pc = @ + 1]
      [] I.k = "started" ->
           IF set_next_op(p, I.op).out # Running THEN set_next_op(p, I.op)
           ELSE [set_next_op(p, I.op) EXCEPT !.pc = @ + 1]
      [] I.k = "foreign" ->
           IF wait_once(p).out # Running THEN wait_once(p)
           ELSE [wait_once(p) EXCEPT !.pc = @ + 1]
      [] I.k = "unpolled" -> [p EXCEPT !.pc = @ + 1]
      [] I.k = "consume" ->
           IF p.stack # << >> /\ p.stack[1].t = "table"
           THEN [p EXCEPT !.stack = << >>, !.pc = @ + 1]
           ELSE [p EXCEPT !.stack = << >>, !.out = Poll_ReadyErr(3)]
      [] I.k = "return" -> [p EXCEPT !.out = Poll_Ready(I.ret)]
RECURSIVE routine_poll(_, _)
routine_poll(code, p) ==
    IF p.out # Running THEN p ELSE routine_poll(code, routine_step(code, p))

\* SeqFut::poll: the first poll creates the routine, every poll runs it
SeqFut_poll(a, shared) ==
    routine_poll(a.code, [shared EXCEPT !.pc = IF a.fut = "Create" THEN 1 ELSE a.pc])

\* the Shared a poll starts with
Shared(a, error) ==
    [pc |-> a.pc, waiting |-> a.waiting, stack |-> a.stack, error |-> error,
     next_op |-> SeqOp_None, started |-> 0, log |-> a.log, out |-> Running]

\* AsyncSequence::poll_fut: the SequencePoll, Err or panic of one poll
tail_variant(ret) ==
    CASE ret.ret = "Return" -> SequencePoll("Return", 0, 0)
      [] ret.ret = "Call" -> SequencePoll("TailCall", ret.target, 0)
      [] ret.ret = "Yield" -> SequencePoll("TailYield", ret.target, 0)
      [] ret.ret = "Resume" -> SequencePoll("TailResume", ret.target, 0)
poll_result_Unchecked(p) ==
    CASE p.out.tag = "Panic" -> PollPanic(p.out.msg)
      [] p.out.tag = "ReadyErr" -> PollErr(p.out.err)
      [] p.out.tag = "Ready" -> tail_variant(p.out.ret)
      [] p.out.tag = "Pending" ->
           IF p.next_op = SeqOp_None THEN SequencePoll("Pending", 0, 0)
           ELSE SequencePoll(p.next_op.op, p.next_op.target, p.next_op.bottom)
poll_result(p) ==
    CASE p.out.tag = "Panic" -> PollPanic(p.out.msg)
      [] p.out.tag \in {"Ready", "ReadyErr"} ->
           IF p.next_op # SeqOp_None
           THEN PollPanic("SequenceState async method not awaited")
           ELSE IF p.out.tag = "ReadyErr" THEN PollErr(p.out.err)
           ELSE tail_variant(p.out.ret)
      [] p.out.tag = "Pending" ->
           IF p.next_op = SeqOp_None
           THEN PollPanic("await of a future other than SequenceState methods")
           ELSE SequencePoll(p.next_op.op, p.next_op.target, p.next_op.bottom)
\* the sequence after the poll; entry, resumed_at, started and polls record
\* the entry point, the await the poll resumed (0 for none), the operations
\* the poll recorded and the number of polls
poll_fut(a, error) ==
    LET p == SeqFut_poll(a, Shared(a, error)) IN
    [a EXCEPT
        !.fut = IF IsTerminal(poll_result(p)) THEN "Done" ELSE "Run",
        !.pc = p.pc, !.waiting = p.waiting, !.stack = p.stack, !.log = p.log,
        !.result = poll_result(p),
        !.owed = poll_result(p).tag \in {"Call", "Yield", "Resume"},
        !.entry = error,
        !.resumed_at = IF a.fut = "Run" /\ a.waiting THEN a.pc ELSE 0,
        !.left_error = p.error,
        !.started = p.started,
        !.polls = a.polls + 1]

\* AsyncSequence::new_seq
new_seq(code, args) ==
    [fut |-> "Create", code |-> code, pc |-> 1, waiting |-> FALSE, stack |-> args,
     log |-> << >>, result |-> NotPolled, owed |-> FALSE, entry |-> NoErr,
     resumed_at |-> 0, left_error |-> NoErr, started |-> 0, polls |-> 0]
AsyncInit == [new_seq(<< >>, << >>) EXCEPT !.fut = "Empty"]

\* the functions of the test: f1() -> 1, 2, 3; f2(...) -> 4, 5, ...;
\* f3(...) -> 6, 7, ...; any other raises an error
fails(f) == f \notin {1, 2, 3}
function_returns(f, args) ==
    CASE f = 1 -> << Integer(1), Integer(2), Integer(3) >>
      [] f = 2 -> << Integer(4), Integer(5) >> \o args
      [] f = 3 -> << Integer(6), Integer(7) >> \o args
\* what the caller of poll does with Call { function, bottom }: the values
\* from bottom upward are the arguments, the returns replace them
From(s, bottom) == SubSeq(s, bottom + 1, Len(s))
Below(s, bottom) == SubSeq(s, 1, bottom)
driver_call(s, function, bottom) ==
    Below(s, bottom) \o function_returns(function, From(s, bottom))
\* ... and with Yield / Resume: the values the sequence is resumed with, or
\* the thread returned, are placed at bottom
driver_place(s, vals, bottom) == Below(s, bottom) \o vals

\* the routine of async_sequence_works for a table of functions: consume the
\* table, seq.call(&function, 0).await? for each entry, return
RECURSIVE CallEach(_)
CallEach(fs) ==
    IF fs = << >> THEN << >>
    ELSE << Await(SeqOp_Call(Head(fs), 0), TRUE) >> \o CallEach(Tail(fs))
TestRoutine(fs) == << Consume >> \o CallEach(fs) \o << Return_(SequenceReturn_Return) >>

(***************************************************************************)
(* The state of the program.                                               *)
(***************************************************************************)
VARIABLES
    stack,          \* ThreadState.stack
    frames,         \* ThreadState.frames
    open_upvalues,  \* ThreadState.open_upvalues
    upvalues,       \* the up-value cells allocated so far
    closures,       \* the closures allocated so far
    tables,         \* the tables allocated so far
    seqs,           \* the sequences Thread::call and Thread::resume returned
    running,        \* the sequence whose step is inside step_lua, 0 for none
    instructions,   \* step_lua's local counter
    executed,       \* opcodes executed by the current (or last) step_lua
    panicked,       \* the message of the panic that ended the program, or ""
    event,          \* the operation that led to this state, and its inputs
    meta,           \* the metamethod operation in progress, and its heap
    aseq            \* the AsyncSequence in progress and its routine

vars == << stack, frames, open_upvalues, upvalues, closures, tables, seqs,
           running, instructions, executed, panicked, event, meta, aseq >>

\* const THREAD_GRANULARITY: u32 = 64
THREAD_GRANULARITY == 64
\* executed stops counting here (it is only compared with the granularity)
ExecutedCap == THREAD_GRANULARITY + 2

ThreadState ==
    [stack |-> stack, frames |-> frames, open_upvalues |-> open_upvalues,
     upvalues |-> upvalues, closures |-> closures, tables |-> tables, panic |-> ""]
Commit(st) ==
    /\ stack' = st.stack
    /\ frames' = st.frames
    /\ open_upvalues' = st.open_upvalues
    /\ upvalues' = st.upvalues
    /\ closures' = st.closures
    /\ tables' = st.tables
    /\ panicked' = st.panic
Event(kind, name, seq, vals) == [kind |-> kind, name |-> name, seq |-> seq, vals |-> vals]

\* ThreadSequence { thread, pending_callback, current_frame }; current_frame
\* is -1 for None.  result is what the last step that returned Some(..)
\* returned.  A sequence made by into_sequence() from a Result is
\* "immediate" and carries that Result.
ThreadSequence(pending, current_frame) ==
    [kind |-> "thread", pending_callback |-> pending, current_frame |-> current_frame,
     result |-> NoResult]
Immediate(res) ==
    [kind |-> "immediate", pending_callback |-> FALSE, current_frame |-> -1, result |-> res]

\* An is_suspended that does not count a coroutine that was never started
is_suspended_of_Yield(fs) == fs # <<>> /\ Last(fs).frame_type = "Yield"

\* Thread::is_suspended, is_finished, is_yieldable
is_suspended_of(fs) == fs # <<>> /\ Last(fs).frame_type \in {"Yield", "CoroutineStart"}
is_suspended == is_suspended_of(frames)
is_finished == frames = <<>>
is_yieldable == frames # <<>> /\ Last(frames).yieldable

(***************************************************************************)
(* The inputs of the embedder and of host callbacks.                       *)
(***************************************************************************)
\* a table that exists before the thread runs: {7, m = <host callback>}
InitTables == << {[k |-> Integer(1), v |-> Integer(7)], [k |-> Str(2), v |-> HostFn]} >>

EntryCalls ==
    { << Fn("TailSelf"), << Fn("TailSelf") >> >>,
      << Fn("TailSelf"), << HostFn, Integer(1) >> >>,
      << Fn("TailSelf"), << >> >>,
      << Fn("Spin"), << >> >>,
      << Fn("CallK"), << HostFn, Integer(1) >> >>,
      << Fn("CallK"), << Fn("RetArgs"), Integer(1) >> >>,
      << Fn("CallK"), << Fn("TailG"), Integer(1) >> >>,
      << Fn("CallK"), << Fn("Ret0"), Integer(1) >> >>,
      << Fn("CallK"), << Integer(1) >> >>,
      << Fn("CallV"), << HostFn, Integer(1) >> >>,
      << Fn("CallV"), << Fn("RetArgs"), Integer(1) >> >>,
      << Fn("TailG"), << HostFn, Integer(1) >> >>,
      << Fn("TailG"), << Fn("Add"), Integer(1) >> >>,
      << Fn("TailG"), << Fn("RetArgs"), Integer(1) >> >>,
      << Fn("Add"), << Integer(1), Integer(2) >> >>,
      << Fn("SubMul"), << Integer(3), Integer(1) >> >>,
      << Fn("SubMul"), << Str(1), Integer(1) >> >>,
      << Fn("TableSet"), << Integer(1), Integer(5) >> >>,
      << Fn("TableSet"), << Nil, Integer(5) >> >>,
      << Fn("TableSet"), << NaN, Integer(5) >> >>,
      << Fn("TableUse"), << TableV(1) >> >>,
      << Fn("TableUse"), << Integer(1) >> >>,
      << Fn("Store"), << TableV(1), Integer(2) >> >>,
      << Fn("Store"), << Integer(1), Integer(2) >> >>,
      << Fn("Concat"), << Str(1), Integer(2) >> >>,
      << Fn("Concat"), << Str(1), Nil >> >>,
      << Fn("LoopCall"), << Fn("Ret0") >> >>,
      << Fn("NumFor"), << Integer(1) >> >>,
      << Fn("NumFor"), << Str(1) >> >>,
      << Fn("GenFor"), << HostFn >> >>,
      << Fn("GenFor"), << Fn("Ret0") >> >>,
      << Fn("GenFor"), << Integer(1) >> >>,
      << Fn("Counter"), << >> >>,
      << Fn("Shared"), << >> >>,
      << Fn("Capture"), << HostFn >> >>,
      << Fn("Capture"), << Fn("RetArgs") >> >>,
      << Fn("Capture"), << Fn("Ret0") >> >>,
      << HostFn, << Integer(1) >> >> }

\* the calls made on a thread that already has frames (from a host callback,
\* or by the embedder between two steps)
NestedCalls ==
    { << Fn("TailSelf"), << >> >>,
      << Fn("Add"), << Integer(1), Integer(2) >> >>,
      << Fn("CallK"), << HostFn, Integer(1) >> >>,
      << Fn("CallK"), << Integer(1) >> >> }

\* the functions a coroutine is created with, and the arguments of a resume
CoroutineFns == { Fn("CallK"), Fn("CallV"), Fn("TailG"), Fn("GenFor"), Fn("Capture"), HostFn }
ResumeArgs ==
    { << >>, << Integer(8) >>, << HostFn, Integer(1) >>,
      << Integer(8), Integer(9), Integer(7) >> }
\* the values a host callback returns or yields
CallbackVals == { << >>, << Integer(5) >>, << Integer(5), Integer(6), Integer(4) >> }

Init ==
    /\ stack = <<>>
    /\ \/ frames = <<>>                                      \* Thread::new
       \/ \E fn \in CoroutineFns : frames = << CoroutineStartFrame(fn) >>  \* Thread::new_coroutine
    /\ open_upvalues = EmptyMap
    /\ upvalues = <<>>
    /\ closures = InitClosures
    /\ tables = InitTables
    /\ seqs = <<>>
    /\ running = 0
    /\ instructions = 0
    /\ executed = 0
    /\ panicked = ""
    /\ event = Event("Init", "", 0, <<>>)
    /\ meta = MetaInit
    /\ aseq = AsyncInit

Idle == running = 0 /\ panicked = ""
(***************************************************************************)
(* Thread::call and Thread::resume.                                        *)
(***************************************************************************)
\* Thread::sequence_function; the result is [st, seq]
sequence_function(st, function, args, yieldable) ==
    LET closure_index == Len(st.stack)
        s1 == [st EXCEPT !.stack = (st.stack \o << function >>) \o args]
        r == call_function(s1, closure_index, VarCount_variable, CallBoundary, yieldable)
    IN CASE r.res = "Err" -> [st |-> r.st, seq |-> Immediate(Err(r.err))]
         [] r.res = "Unfinished" ->
              [st |-> r.st, seq |-> ThreadSequence(FALSE, Len(r.st.frames) - 1)]
         [] r.res = "PendingCallback" ->
              [st |-> r.st, seq |-> ThreadSequence(TRUE, Len(r.st.frames) - 1)]
         [] OTHER -> [st |-> r.st, seq |-> Immediate(NoResult)]

\* Thread::call(function, args), while fewer than max sequences were made
CallWithin(max, function, args) ==
    /\ Idle
    /\ Len(seqs) < max
    /\ \E r \in {sequence_function(ThreadState, function, args, FALSE)} :
          /\ Commit(r.st)
          /\ seqs' = IF Panicked(r.st) THEN seqs ELSE Append(seqs, r.seq)
    /\ UNCHANGED << meta, aseq >>
    /\ event' = Event("Call", "", Len(seqs) + 1, args)
    /\ UNCHANGED << running, instructions, executed >>
Call(function, args) == CallWithin(MaxSeqs, function, args)

\* Returned values placed without regard to the wanted count
place_returns_All(stk, bottom, return_len, vals) ==
    [i \in 1..(bottom + Len(vals)) |->
       IF i <= bottom THEN (IF i <= Len(stk) THEN stk[i] ELSE Nil) ELSE vals[i - bottom]]

\* stack.truncate(bottom); stack.resize(bottom + return_len, Nil); then the
\* first min(return_len, len) values are stored from bottom
place_returns(stk, bottom, return_len, vals) ==
    [i \in 1..(bottom + return_len) |->
       IF i <= bottom THEN (IF i <= Len(stk) THEN stk[i] ELSE Nil)
       ELSE IF i - bottom <= Len(vals) THEN vals[i - bottom] ELSE Nil]

\* A resume that takes a thread without frames for one that yielded at its
\* call boundary
resume_Finished(st, args) ==
    IF st.frames = <<>> THEN [st |-> st, seq |-> Immediate(Ok(args))]
    ELSE LET last_frame == Last(st.frames)
             s1 == [st EXCEPT !.frames = Front(st.frames)]
             returns == last_frame.frame_return.returns
             return_len == to_constant_or(returns, Len(args))
             placed == place_returns(s1.stack, last_frame.bottom, return_len, args)
         IN CASE last_frame.frame_type = "CoroutineStart" ->
                   sequence_function(s1, last_frame.function, args, TRUE)
              [] last_frame.frame_type = "Yield" /\ last_frame.frame_return.kind = "CallBoundary" ->
                   [st |-> s1, seq |-> Immediate(Ok(args))]
              [] last_frame.frame_type = "Yield" /\ last_frame.frame_return.kind = "Upper" ->
                   IF s1.frames = <<>>
                   THEN [st |-> Panic([s1 EXCEPT !.stack = placed], "no upper frame to return to"),
                         seq |-> Immediate(NoResult)]
                   ELSE [st |-> [s1 EXCEPT !.stack =
                                    IF is_variable(returns) THEN placed
                                    ELSE resize(placed, Last(s1.frames).top)],
                         seq |-> ThreadSequence(FALSE, Len(s1.frames) - 1)]
              [] OTHER -> [st |-> s1, seq |-> Immediate(Err(BadResume))]

\* A resume that leaves the stack at the placed values, whatever the count
\* the frame below asked for
resume_NoRestore(st, args) ==
    IF st.frames = <<>> THEN [st |-> st, seq |-> Immediate(Err(BadResume))]
    ELSE LET last_frame == Last(st.frames)
             s1 == [st EXCEPT !.frames = Front(st.frames)]
             returns == last_frame.frame_return.returns
             return_len == to_constant_or(returns, Len(args))
             placed == place_returns(s1.stack, last_frame.bottom, return_len, args)
         IN CASE last_frame.frame_type = "CoroutineStart" ->
                   sequence_function(s1, last_frame.function, args, TRUE)
              [] last_frame.frame_type = "Yield" /\ last_frame.frame_return.kind = "CallBoundary" ->
                   [st |-> s1, seq |-> Immediate(Ok(args))]
              [] last_frame.frame_type = "Yield" /\ last_frame.frame_return.kind = "Upper" ->
                   IF s1.frames = <<>>
                   THEN [st |-> Panic([s1 EXCEPT !.stack = placed], "no upper frame to return to"),
                         seq |-> Immediate(NoResult)]
                   ELSE [st |-> [s1 EXCEPT !.stack = placed],
                         seq |-> ThreadSequence(FALSE, Len(s1.frames) - 1)]
              [] OTHER -> [st |-> s1, seq |-> Immediate(Err(BadResume))]
\* Thread::resume; the result is [st, seq]
resume(st, args) ==
    IF st.frames = <<>> THEN [st |-> st, seq |-> Immediate(Err(BadResume))]
    ELSE LET last_frame == Last(st.frames)
             s1 == [st EXCEPT !.frames = Front(st.frames)]
             returns == last_frame.frame_return.returns
             return_len == to_constant_or(returns, Len(args))
             placed == place_returns(s1.stack, last_frame.bottom, return_len, args)
         IN CASE last_frame.frame_type = "CoroutineStart" ->
                   sequence_function(s1, last_frame.function, args, TRUE)
              [] last_frame.frame_type = "Yield" /\ last_frame.frame_return.kind = "CallBoundary" ->
                   [st |-> s1, seq |-> Immediate(Ok(args))]
              [] last_frame.frame_type = "Yield" /\ last_frame.frame_return.kind = "Upper" ->
                   IF s1.frames = <<>>
                   THEN [st |-> Panic([s1 EXCEPT !.stack = placed], "no upper frame to return to"),
                         seq |-> Immediate(NoResult)]
                   ELSE [st |-> [s1 EXCEPT !.stack =
                                    IF is_variable(returns) THEN placed
                                    ELSE resize(placed, Last(s1.frames).top)],
                         seq |-> ThreadSequence(FALSE, Len(s1.frames) - 1)]
              [] OTHER -> [st |-> s1, seq |-> Immediate(Err(BadResume))]

ResumeWithin(max, args) ==
    /\ Idle
    /\ Len(seqs) < max
    /\ \E r \in {resume(ThreadState, args)} :
          /\ Commit(r.st)
          /\ seqs' = IF Panicked(r.st) THEN seqs ELSE Append(seqs, r.seq)
    /\ UNCHANGED << meta, aseq >>
    /\ event' = Event("Resume", "", Len(seqs) + 1, args)
    /\ UNCHANGED << running, instructions, executed >>
Resume(args) == ResumeWithin(MaxSeqs, args)
(***************************************************************************)
(* ThreadSequence::step.                                                   *)
(***************************************************************************)
SetSeq(s, pending, current_frame, res) ==
    [seqs EXCEPT ![s] = [kind |-> "thread", pending_callback |-> pending,
                         current_frame |-> current_frame, result |-> res]]

\* self.current_frame.expect("cannot step finished sequence")
StepFinished(s) ==
    /\ Idle
    /\ seqs[s].kind = "thread"
    /\ seqs[s].current_frame = -1
    /\ panicked' = "cannot step finished sequence"
    /\ UNCHANGED << meta, aseq >>
    /\ event' = Event("StepFinished", "", s, <<>>)
    /\ UNCHANGED << stack, frames, open_upvalues, upvalues, closures, tables, seqs,
                    running, instructions, executed >>

\* what one step of a host callback's sequence gives: None, Some(Err(..)),
\* Some(Ok(Yield(vals))) or Some(Ok(Return(vals)))
CallbackSteps ==
    { [kind |-> "None", vals |-> <<>>], [kind |-> "Err", vals |-> <<>>] }
    \cup { [kind |-> k, vals |-> v] : k \in {"Yield", "Return"}, v \in CallbackVals }

\* A return of the callback that leaves the callback's frame on the thread
callback_return_NoPop(st, seq, vals) ==
    LET top_frame == Last(st.frames)
        returns == top_frame.frame_return.returns
        return_len == to_constant_or(returns, Len(vals))
        placed == place_returns(st.stack, top_frame.bottom, return_len, vals)
    IN IF top_frame.frame_return.kind = "CallBoundary"
       THEN [st |-> st, current_frame |-> seq.current_frame,
             pending |-> seq.pending_callback, res |-> Ok(vals)]
       ELSE [st |-> [st EXCEPT !.stack = IF is_variable(returns) THEN placed
                                        ELSE resize(placed, top_frame.top)],
             current_frame |-> Len(st.frames) - 1, pending |-> FALSE, res |-> seq.result]
\* Ok(CallbackResult::Return(res)) in ThreadSequence::step; the result is
\* [st, current_frame, pending, res]
callback_return(st, seq, vals) ==
    LET top_frame == Last(st.frames)
        s1 == [st EXCEPT !.frames = Front(st.frames)]
        returns == top_frame.frame_return.returns
        return_len == to_constant_or(returns, Len(vals))
        placed == place_returns(s1.stack, top_frame.bottom, return_len, vals)
    IN IF top_frame.frame_return.kind = "CallBoundary"
       THEN [st |-> s1, current_frame |-> seq.current_frame,
             pending |-> seq.pending_callback, res |-> Ok(vals)]
       ELSE IF s1.frames = <<>>
       THEN [st |-> Panic([s1 EXCEPT !.stack = placed], "no frame to return to from callback"),
             current_frame |-> seq.current_frame, pending |-> seq.pending_callback,
             res |-> NoResult]
       ELSE [st |-> [s1 EXCEPT !.stack = IF is_variable(returns) THEN placed
                                         ELSE resize(placed, Last(s1.frames).top)],
             current_frame |-> Len(s1.frames) - 1, pending |-> FALSE, res |-> seq.result]

\* Ok(CallbackResult::Yield(res)) in ThreadSequence::step
callback_yield(st, seq, vals) ==
    [st |-> [st EXCEPT !.frames[seq.current_frame + 1].frame_type = "Yield"],
     current_frame |-> -1, pending |-> FALSE, res |-> Ok(vals)]

\* Err(err) of the callback in ThreadSequence::step
callback_error(st, seq) ==
    [st |-> unwind(st), current_frame |-> -1, pending |-> FALSE, res |-> Err(UserError)]

\* ThreadSequence::step with a pending callback: the callback's sequence is
\* stepped once and gives c.
StepCallback(s, c) ==
    /\ Idle
    /\ seqs[s].kind = "thread"
    /\ seqs[s].current_frame # -1
    /\ seqs[s].pending_callback
    /\ UNCHANGED << meta, aseq >>
    /\ event' = Event("Callback", c.kind, s, c.vals)
    /\ UNCHANGED << running, instructions, executed >>
    /\ LET cf == seqs[s].current_frame
       IN IF cf >= Len(frames)
          THEN /\ panicked' = "called Option::unwrap() on a None value"
               /\ UNCHANGED << stack, frames, open_upvalues, upvalues, closures, tables, seqs >>
          ELSE IF frames[cf + 1].frame_type # "Callback"
          THEN /\ panicked' = "pending callback, but current frame is not a callback frame"
               /\ UNCHANGED << stack, frames, open_upvalues, upvalues, closures, tables, seqs >>
          ELSE IF c.kind = "None"
          THEN UNCHANGED << stack, frames, open_upvalues, upvalues, closures, tables, seqs,
                            panicked >>
          ELSE IF cf + 1 # Len(frames)
          THEN /\ panicked' = "cannot return from lower frame"
               /\ UNCHANGED << stack, frames, open_upvalues, upvalues, closures, tables, seqs >>
          ELSE \E r \in {CASE c.kind = "Err" -> callback_error(ThreadState, seqs[s])
                            [] c.kind = "Yield" -> callback_yield(ThreadState, seqs[s], c.vals)
                            [] OTHER -> callback_return(ThreadState, seqs[s], c.vals)} :
                  /\ Commit(r.st)
                  /\ seqs' = IF Panicked(r.st) THEN seqs
                             ELSE SetSeq(s, r.pending, r.current_frame, r.res)

\* ThreadSequence::step without a pending callback, up to the call of
\* step_lua: the counter is set to the granularity.
StepLua(s) ==
    /\ Idle
    /\ seqs[s].kind = "thread"
    /\ seqs[s].current_frame # -1
    /\ ~seqs[s].pending_callback
    /\ UNCHANGED << meta, aseq >>
    /\ event' = Event("StepLua", "", s, <<>>)
    /\ IF seqs[s].current_frame + 1 # Len(frames)
       THEN /\ panicked' = "assertion failed: current_frame + 1 == state.frames.len()"
            /\ UNCHANGED << running, instructions, executed >>
       ELSE /\ running' = s
            /\ instructions' = THREAD_GRANULARITY
            /\ executed' = 0
            /\ UNCHANGED panicked
    /\ UNCHANGED << stack, frames, open_upvalues, upvalues, closures, tables, seqs >>

\* The opcode the next turn of step_lua executes ("" when there is none)
CurrentOp ==
    IF frames # <<>> /\ Last(frames).frame_type = "Lua" /\ InBounds(stack, Last(frames).bottom)
       /\ At(stack, Last(frames).bottom).t = "closure"
       /\ Last(frames).pc < Len(CurProto(ThreadState, Last(frames)).opcodes)
    THEN CurProto(ThreadState, Last(frames)).opcodes[Last(frames).pc + 1].op
    ELSE ""

\* How ThreadSequence::step ends when step_lua returned; the result is
\* [st, current_frame, pending, res]
step_result(seq, o) ==
    CASE o.ctl = "error" ->
           [st |-> unwind(o.st), current_frame |-> -1, pending |-> seq.pending_callback,
            res |-> Err(o.err)]
      [] o.ctl = "finished" ->
           [st |-> o.st, current_frame |-> -1, pending |-> seq.pending_callback,
            res |-> Ok(o.vals)]
      [] o.ctl = "pending" ->
           [st |-> o.st, current_frame |-> Len(o.st.frames) - 1, pending |-> TRUE,
            res |-> seq.result]
      [] OTHER ->  \* Unfinished
           [st |-> o.st, current_frame |-> Len(o.st.frames) - 1,
            pending |-> seq.pending_callback, res |-> seq.result]

\* One opcode of step_lua, and, when step_lua returns with it, the rest of
\* ThreadSequence::step.
ExecOp ==
    /\ running # 0
    /\ panicked = ""
    /\ \E o \in {step_opcode(ThreadState)} :
          /\ UNCHANGED << meta, aseq >>
          /\ event' = Event("Op", CurrentOp, running, o.vals)
          /\ executed' = Min(executed + 1, ExecutedCap)
          /\ IF Panicked(o.st)
             THEN Commit(o.st) /\ UNCHANGED << seqs, running, instructions >>
             ELSE IF o.ctl \in {"error", "finished", "pending"}
                     \/ (o.ctl = "next" /\ instructions = 0)
             THEN \E r \in {step_result(seqs[running], o)} :
                     /\ Commit(r.st)
                     /\ seqs' = IF Panicked(r.st) THEN seqs
                                ELSE SetSeq(running, r.pending, r.current_frame, r.res)
                     /\ running' = IF Panicked(r.st) THEN running ELSE 0
                     /\ UNCHANGED instructions
             ELSE /\ Commit(o.st)
                  /\ instructions' = IF o.ctl = "next" THEN instructions - 1 ELSE instructions
                  /\ UNCHANGED << seqs, running >>

Next ==
    \/ \E c \in (IF frames = <<>> THEN EntryCalls ELSE NestedCalls) : Call(c[1], c[2])
    \/ \E args \in ResumeArgs : Resume(args)
    \/ \E s \in 1..Len(seqs) : StepFinished(s)
    \/ \E s \in 1..Len(seqs), c \in CallbackSteps : StepCallback(s, c)
    \/ \E s \in 1..Len(seqs) : StepLua(s)
    \/ ExecOp

Spec == Init /\ [][Next]_vars
\* One sequence at a time, and step_lua's loop keeps executing opcodes until
\* it returns
MaxFairSeqs == 1
FairNext == Next /\ Len(seqs') <= MaxFairSeqs
FairSpec == Init /\ [][FairNext]_vars /\ WF_vars(ExecOp)

\* A longer life of one thread: up to MaxDeepSeqs calls and resumes; the calls
\* are made while the thread has no frame, of a function that calls a host
\* callback while one of its locals is captured and of a function that
\* returns at once.
MaxDeepSeqs == 4
DeepCalls == { << Fn("Capture"), << HostFn >> >>, << Fn("Ret0"), << >> >> }
DeepNext ==
    \/ \E c \in DeepCalls : frames = <<>> /\ CallWithin(MaxDeepSeqs, c[1], c[2])
    \/ ResumeWithin(MaxDeepSeqs, << >>)
    \/ \E s \in 1..Len(seqs) : StepFinished(s)
    \/ \E s \in 1..Len(seqs), c \in CallbackSteps : StepCallback(s, c)
    \/ \E s \in 1..Len(seqs) : StepLua(s)
    \/ ExecOp
DeepSpec == Init /\ [][DeepNext]_vars

(***************************************************************************)
(* Calls that return to an upper frame or to the embedder: callees with a  *)
(* frame smaller and larger than the count the caller wants, returning     *)
(* fewer and more values than wanted.                                      *)
(***************************************************************************)
MaxReturnSeqs == 2
ReturnCalls ==
    { << Fn("Call3"), << Fn("Ret0") >> >>,
      << Fn("Call3"), << Fn("RetArgs") >> >>,
      << Fn("Call3"), << Fn("Counter") >> >>,
      << Fn("CallK"), << Fn("Ret0"), Integer(1) >> >>,
      << Fn("CallK"), << Fn("RetArgs"), Integer(1) >> >>,
      << Fn("CallK"), << HostFn, Integer(1) >> >>,
      << Fn("CallV"), << Fn("RetArgs"), Integer(1) >> >>,
      << Fn("CallV"), << Fn("Ret0"), Integer(1) >> >>,
      << Fn("RetArgs"), << Integer(1), Integer(2) >> >>,
      << Fn("Add"), << Integer(1), Integer(2) >> >>,
      << Fn("Ret0"), << >> >>,
      << Fn("Stale"), << Fn("Id") >> >>,
      << Fn("Stale"), << Fn("Add") >> >>,
      << Fn("Id"), << >> >>,
      << Fn("Block"), << >> >> }
ReturnNext ==
    \/ \E c \in ReturnCalls : CallWithin(MaxReturnSeqs, c[1], c[2])
    \/ \E s \in 1..Len(seqs) : StepFinished(s)
    \/ \E s \in 1..Len(seqs), c \in CallbackSteps : StepCallback(s, c)
    \/ \E s \in 1..Len(seqs) : StepLua(s)
    \/ ExecOp
ReturnSpec == Init /\ [][ReturnNext]_vars

(***************************************************************************)
(* Numeric for loops: calls, made while the thread has no frame, of a      *)
(* function that loops from a to b by s and records the values of its      *)
(* induction variable, for the integers a, b of ForRange and the steps of  *)
(* ForSteps.                                                               *)
(***************************************************************************)
MaxForSeqs == 1
ForRange == -1..2
ForSteps == {-2, -1, 1, 2, 3}
ForCalls ==
    { << Fn("For3"), << Integer(a), Integer(b), Integer(s) >> >> :
        a \in ForRange, b \in ForRange, s \in ForSteps }
ForNext ==
    \/ \E c \in ForCalls : frames = <<>> /\ CallWithin(MaxForSeqs, c[1], c[2])
    \/ \E s \in 1..Len(seqs) : StepFinished(s)
    \/ \E s \in 1..Len(seqs) : StepLua(s)
    \/ ExecOp
ForSpec == Init /\ [][ForNext]_vars

ThreadUnchanged ==
    UNCHANGED << stack, frames, open_upvalues, upvalues, closures, tables, seqs,
                 running, instructions, executed, panicked, event, aseq >>

\* The number of callback invocations followed for one operation.
MaxMetaSteps == 4
\* An operation is applied when the call the last one asked for has been made
\* (or followed for MaxMetaSteps invocations).
Quiescent == ~meta.pending.active \/ meta.steps = MaxMetaSteps

\* the embedder (or an opcode) applies index
Index(table, key) ==
    /\ Quiescent
    /\ \E r \in {index(meta.heap, table, key)} :
          meta' = MetaState(meta.heap, meta.heap, "index", << table, key >>, r,
                            PendingOf(r), NoReturn, 0)
    /\ ThreadUnchanged

NewIndex(table, key, value) ==
    /\ Quiescent
    /\ \E r \in {new_index(meta.heap, table, key, value)} :
          meta' = MetaState(r.heap, meta.heap, "new_index", << table, key, value >>,
                            r.res, PendingOf(r.res), NoReturn, 0)
    /\ ThreadUnchanged

\* the caller resolves v and calls the function it gets with args
MetaCallValue(v, args) ==
    /\ Quiescent
    /\ \E r \in {call(meta.heap, v)} :
          meta' = MetaState(meta.heap, meta.heap, "call", << v >> \o args,
                            IF r.ok THEN MetaResult_Function(r.val)
                            ELSE MetaResult_Err(CallbackCallError(r.err)),
                            IF r.ok THEN Pending(r.val, args) ELSE NoPending, NoReturn, 0)
    /\ ThreadUnchanged

BinaryOp(method, lhs, rhs) ==
    /\ Quiescent
    /\ \E r \in {meta_metaop(meta.heap, lhs, rhs, method)} :
          meta' = MetaState(meta.heap, meta.heap, method, << lhs, rhs >>, r,
                            PendingOf(r), NoReturn, 0)
    /\ ThreadUnchanged

\* One step of the driver: one invocation of the pending synthetic callback.
\* A Call return makes its function the next pending call, with the stack the
\* callback left as its arguments.
StepSynthetic ==
    /\ meta.pending.active
    /\ IsSynthetic(meta.pending.function)
    /\ meta.steps < MaxMetaSteps
    /\ \E r \in {invoke(meta.heap, meta.pending.function, meta.pending.stack)} :
          meta' = [meta EXCEPT
                     !.heap = r.heap,
                     !.pending = IF r.res.tag = "Call"
                                 THEN Pending(r.res.function, r.res.stack)
                                 ELSE NoPending,
                     !.last = r.res,
                     !.steps = @ + 1]
    /\ ThreadUnchanged

\* The pending call reaches a function of the program: it runs outside this
\* layer, with the pending stack as its arguments.
StepFunction ==
    /\ meta.pending.active
    /\ ~IsSynthetic(meta.pending.function)
    /\ meta' = [meta EXCEPT
                  !.pending = NoPending,
                  !.last = [tag |-> "Function", stack |-> meta.pending.stack,
                            function |-> meta.pending.function, err |-> NoMetaError]]
    /\ ThreadUnchanged

MetaNext ==
    \/ \E t \in Receivers, k \in Keys : Index(t, k)
    \/ \E t \in Receivers, k \in NewKeys, v \in NewValues : NewIndex(t, k, v)
    \/ \E v \in Callees, a \in CallArgs : MetaCallValue(v, a)
    \/ \E m \in BinaryMethods, l \in BinaryOperands, r \in BinaryOperands : BinaryOp(m, l, r)
    \/ StepSynthetic
    \/ StepFunction
\* the operations are applied beside a new thread
MetaSpecInit == Init /\ frames = << >>
MetaSpec == MetaSpecInit /\ [][MetaNext]_vars

(***************************************************************************)
(* equal, applied to pairs of values of every tag.                         *)
(***************************************************************************)
EqualOperands ==
    {Nil, Boolean(TRUE), Boolean(FALSE), Integer(1), Integer(2), BigInteger(0),
     BigInteger(1), BigInteger(2), BigInteger(3), Number(1), BigNumber(0), BigNumber(2),
     BigNumber(4), NaN, Str(1), Str(2), HostFn, HostFn2, ThreadV(1), ThreadV(2),
     TableV(1), TableV(3), TableV(7), TableV(11), TableV(13),
     UserDataV(1), UserDataV(2), UserDataV(3), UserDataV(4)}
Equal(lhs, rhs) ==
    /\ Quiescent
    /\ \E r \in {equal(meta.heap, lhs, rhs)} :
          meta' = MetaState(meta.heap, meta.heap, "equal", << lhs, rhs >>, r,
                            PendingOf(r), NoReturn, 0)
    /\ ThreadUnchanged
\* the function equal asks for is called with [lhs, rhs]
EqualNext ==
    \/ \E l \in EqualOperands, r \in EqualOperands : Equal(l, r)
    \/ StepFunction
EqualSpec == MetaSpecInit /\ [][EqualNext]_vars

(***************************************************************************)
(* An AsyncSequence and the caller of its poll and error.                  *)
(***************************************************************************)
\* the routines: the one of async_sequence_works on four tables, and
\* routines that use every operation, with and without `?`, that return
\* every SequenceReturn, and that break each rule of new_seq's # Panics
Routines ==
    { TestRoutine(<< 1, 2, 3 >>), TestRoutine(<< >>), TestRoutine(<< 3, 2 >>),
      TestRoutine(<< 1, 4, 3 >>),
      << Await(SeqOp_Call(1, 1), FALSE), Await(SeqOp_Call(2, 2), TRUE),
         Return_(SequenceReturn_Call(3)) >>,
      << Await(SeqOp_Pending, FALSE), Await(SeqOp_Yield(0, 1), FALSE),
         Await(SeqOp_Resume(1, 0), TRUE), Return_(SequenceReturn_Yield(0)) >>,
      << Await(SeqOp_Resume(1, 1), FALSE), Await(SeqOp_Pending, FALSE),
         Return_(SequenceReturn_Resume(1)) >>,
      << Started(SeqOp_Call(1, 0)), Await(SeqOp_Pending, FALSE),
         Return_(SequenceReturn_Return) >>,
      << Await(SeqOp_Yield(0, 0), FALSE), Started(SeqOp_Call(1, 0)),
         Return_(SequenceReturn_Return) >>,
      << Await(SeqOp_Call(1, 0), TRUE), Foreign, Return_(SequenceReturn_Return) >>,
      << Started(SeqOp_Call(2, 1)), Foreign, Await(SeqOp_Pending, FALSE),
         Return_(SequenceReturn_Return) >>,
      << Unpolled(SeqOp_Call(1, 0)), Await(SeqOp_Call(2, 0), FALSE),
         Return_(SequenceReturn_Return) >> }
SeqArgs == { << TableV(1) >>, << Integer(8), Integer(9) >> }
SeqErrors == {1, 2}
PlacedValues == { << >>, << Integer(5) >> }

OthersUnchanged ==
    UNCHANGED << stack, frames, open_upvalues, upvalues, closures, tables, seqs,
                 running, instructions, executed, panicked, event, meta >>

\* a callback returns CallbackReturn::Sequence(new_seq(..)); its arguments
\* are the stack of the sequence
NewSeq(code, args) ==
    /\ aseq.fut \in {"Empty", "Done"}
    /\ aseq' = new_seq(code, args)
    /\ OthersUnchanged
\* the caller does what the last SequencePoll asked for
DriverCall ==
    /\ aseq.fut = "Run" /\ aseq.owed
    /\ aseq.result.tag = "Call"
    /\ ~fails(aseq.result.target)
    /\ aseq.result.bottom <= Len(aseq.stack)
    /\ aseq' = [aseq EXCEPT
                  !.stack = driver_call(@, aseq.result.target, aseq.result.bottom),
                  !.owed = FALSE]
    /\ OthersUnchanged
DriverPlace(vals) ==
    /\ aseq.fut = "Run" /\ aseq.owed
    /\ aseq.result.tag \in {"Yield", "Resume"}
    /\ aseq.result.bottom <= Len(aseq.stack)
    /\ aseq' = [aseq EXCEPT
                  !.stack = driver_place(@, vals, aseq.result.bottom),
                  !.owed = FALSE]
    /\ OthersUnchanged
\* Sequence::poll
SeqPoll ==
    /\ aseq.fut \in {"Create", "Run"} /\ ~aseq.owed
    /\ aseq' = poll_fut(aseq, NoErr)
    /\ OthersUnchanged
\* Sequence::error
SeqError(error) ==
    /\ aseq.fut = "Run"
    /\ aseq' = [poll_fut(aseq, SomeErr(error)) EXCEPT !.owed = poll_fut(aseq, SomeErr(error)).owed]
    /\ OthersUnchanged
AsyncNext ==
    \/ \E code \in Routines, args \in SeqArgs : NewSeq(code, args)
    \/ DriverCall
    \/ \E vals \in PlacedValues : DriverPlace(vals)
    \/ SeqPoll
    \/ \E error \in SeqErrors : SeqError(error)
AsyncSpec == MetaSpecInit /\ [][AsyncNext]_vars

(***************************************************************************)
(* Properties.                                                             *)
(***************************************************************************)
\* The opcode ExecOp executes next, and the operand it calls or indexes
CurrentOpcode == CurProto(ThreadState, Last(frames)).opcodes[Last(frames).pc + 1]
InStepLua == running # 0 /\ panicked = ""
CallOps == {"Call", "TailCall", "GenericForCall"}
TableOps ==
    {"GetTableR", "GetTableC", "SetTableRR", "SetTableRC", "SetTableCR", "SetTableCC",
     "Length", "SelfR", "SelfC"}
CurrentOperand ==
    CASE CurrentOp \in {"Call", "TailCall"} -> Reg(ThreadState, Last(frames), CurrentOpcode.func)
      [] CurrentOp = "GenericForCall" -> Reg(ThreadState, Last(frames), CurrentOpcode.base)
      [] CurrentOp = "Length" -> Reg(ThreadState, Last(frames), CurrentOpcode.source)
      [] CurrentOp \in TableOps -> Reg(ThreadState, Last(frames), CurrentOpcode.table)
      [] OTHER -> Nil
\* The last step made a sequence end with an error
ErrorStep ==
    /\ panicked = ""
    /\ \/ event.kind = "Op" /\ seqs[event.seq].result.tag = "err"
       \/ event.kind = "Callback" /\ event.name = "Err"
\* The last step was a callback's sequence giving Yield
YieldStep == panicked = "" /\ event.kind = "Callback" /\ event.name = "Yield"
\* The frames left when fs is unwound to its nearest call boundary
UnwoundFrames(fs) ==
    LET bs == {i \in 1..Len(fs) : fs[i].frame_return.kind = "CallBoundary"}
    IN IF bs = {} THEN <<>> ELSE SubSeq(fs, 1, (CHOOSE j \in bs : \A k \in bs : k <= j) - 1)

\* C1: one invocation of step_lua executes at most THREAD_GRANULARITY (64)
\* opcodes, every executed opcode counted.
C1_AtMostQOpcodes == executed <= THREAD_GRANULARITY

\* C2: every invocation of step_lua returns after finitely many opcodes.
C2_StepLuaReturns == (running # 0) ~> (running = 0 \/ panicked # "")

\* C3: executing TailCall never increases frames.len(), whatever the callee.
C3_TailCallNeverGrowsFrames ==
    [][(InStepLua /\ CurrentOp = "TailCall") => Len(frames') <= Len(frames)]_vars
\* a tail call has replaced the caller's frame by the callee's
C3_Witness ==
    /\ panicked = "" /\ event.kind = "Op" /\ event.name = "TailCall"
    /\ frames # <<>> /\ Last(frames).frame_type = "Lua" /\ Last(frames).pc = 0

\* C4: a callback's Yield(vals) turns the top frame into a Yield frame, makes
\* vals the sequence's result and suspends the thread; resume(args) of a
\* thread suspended in a Yield frame with frame_return Upper(returns) pops the
\* frame and returns args to the Lua frame below: with a constant count k the
\* slots from the frame's bottom hold the first k of args, Nil-padded (and Nil
\* up to that frame's top); with a variable count they hold all of args and
\* the stack ends after them.
C4_YieldSuspends ==
    YieldStep =>
        /\ frames # <<>> /\ Last(frames).frame_type = "Yield"
        /\ is_suspended
        /\ seqs[event.seq].result = Ok(event.vals)
        /\ seqs[event.seq].current_frame = -1
C4_ResumeReturnsArgs ==
    (/\ Idle /\ event'.kind = "Resume" /\ frames # <<>>
     /\ Last(frames).frame_type = "Yield" /\ Last(frames).frame_return.kind = "Upper")
    => LET b == Last(frames).bottom
           returns == Last(frames).frame_return.returns
           args == event'.vals
       IN /\ panicked' = ""
          /\ frames' = Front(frames)
          /\ frames' # <<>> /\ Last(frames').frame_type = "Lua"
          /\ seqs'[event'.seq] = ThreadSequence(FALSE, Len(frames') - 1)
          /\ IF is_variable(returns)
             THEN /\ Len(stack') = b + Len(args)
                  /\ \A i \in 1..Len(args) : stack'[b + i] = args[i]
             ELSE /\ Len(stack') = Last(frames').top
                  /\ b + returns.n <= Len(stack')
                  /\ \A i \in 1..(Len(stack') - b) :
                        stack'[b + i] = IF i <= Min(returns.n, Len(args)) THEN args[i] ELSE Nil
C4_YieldThenResume == []C4_YieldSuspends /\ [][C4_ResumeReturnsArgs]_vars
\* a thread that yielded under a call wanting 2 results was resumed with 3
\* values and the Lua frame below runs on
C4_Witness ==
    /\ panicked = "" /\ event.kind = "Resume" /\ Len(event.vals) = 3
    /\ seqs[event.seq] = ThreadSequence(FALSE, Len(frames) - 1)
    /\ frames # <<>> /\ Last(frames).frame_type = "Lua" /\ Last(frames).pc > 0
    /\ CurrentOp = "Return"

\* C5: a Yield from a callback whose frame is not yieldable ends the sequence
\* with ThreadError::BadYield and does not suspend the thread.
C5_BadYield ==
    YieldStep =>
        \/ frames # <<>> /\ Last(frames).frame_type = "Yield" /\ Last(frames).yieldable
        \/ seqs[event.seq].result = Err(BadYield) /\ ~is_suspended

\* C6: resume of a thread that is not suspended (no frames, or a Lua or
\* Callback frame on top) gives a sequence whose result is BadResume.
C6_BadResume ==
    [][(Idle /\ event'.kind = "Resume" /\ ~is_suspended)
       => seqs'[event'.seq] = Immediate(Err(BadResume))]_vars
\* a thread whose first sequence finished with values was resumed
C6_Witness ==
    /\ event.kind = "Resume" /\ event.seq = 2
    /\ seqs[1].kind = "thread" /\ seqs[1].result.tag = "ok" /\ seqs[1].current_frame = -1
    /\ frames = <<>>
    /\ seqs[2] = Immediate(Err(BadResume))

\* C7: when an opcode or a pending callback fails, exactly the frames from
\* the top down to and including the nearest CallBoundary frame that was on
\* the frame stack before the failing operation are popped.
C7_UnwindToNearestBoundary ==
    [][(\/ InStepLua /\ step_opcode(ThreadState).ctl = "error"
        \/ Idle /\ event'.kind = "Callback" /\ event'.name = "Err"
           /\ seqs[event'.seq].current_frame + 1 = Len(frames)
           /\ Last(frames).frame_type = "Callback")
       => panicked' = "" /\ frames' = UnwoundFrames(frames)]_vars

\* C8: after an error unwind the stack is cut to the top of the new top
\* frame, and is empty when no frame remains.
C8_StackAfterUnwind ==
    ErrorStep => IF frames = <<>> THEN stack = <<>> ELSE Len(stack) = Last(frames).top

\* C9: a failing opcode operand is never a panic.
C9_OperandErrorsAreValues ==
    panicked \notin {"could not apply binary operator", "could not set table value",
                     "called Result::unwrap() on an Err value",
                     "non numeric for loop parameters", "non numeric for loop parameter"}

\* C10: Call, TailCall or GenericForCall on a value that is not a function
\* ends the running sequence with TypeError{expected: "function", found}, and
\* GetTable, SetTable, Length or Self on a value that is not a table with
\* TypeError{expected: "table", found}, from any frame.
C10_TypeErrorIsResult ==
    [][(/\ InStepLua
        /\ \/ CurrentOp \in CallOps /\ type_name(CurrentOperand) # "function"
           \/ CurrentOp \in TableOps /\ type_name(CurrentOperand) # "table")
       => /\ panicked' = ""
          /\ running' = 0
          /\ seqs'[running].result =
               Err(TypeError(IF CurrentOp \in CallOps THEN "function" ELSE "table",
                             type_name(CurrentOperand)))]_vars
\* The top frame runs closure `name` and is about to execute opcode number pc
AtOp(name, pc) ==
    /\ panicked = "" /\ frames # <<>> /\ Last(frames).frame_type = "Lua"
    /\ InBounds(stack, Last(frames).bottom) /\ At(stack, Last(frames).bottom).t = "closure"
    /\ CurClosure(ThreadState, Last(frames)).proto = name
    /\ Last(frames).pc = pc
TopReg(r) == Reg(ThreadState, Last(frames), r)

\* C11: two closures created from the same frame that capture the same local
\* hold the same up-value cell (Closure reuses the open cell of the slot), a
\* SetUpValue through one is read by GetUpValue through the other while the
\* cell is open and after it is closed, and closing a cell keeps the value
\* read through it: inc and get made by mk() give 1 while mk runs, and then
\* inc(), inc(), get() give 2, 3, 3.
C11_ClosureReusesOpenCell ==
    (InStepLua /\ CurrentOp = "Closure" /\ panicked' = "")
    => LET descs == Protos[CurrentOpcode.proto].upvalues
           new == closures'[Len(closures')]
       IN /\ Len(closures') = Len(closures) + 1
          /\ Len(new.upvalues) = Len(descs)
          /\ \A j \in 1..Len(descs) :
                descs[j].kind = "ParentLocal" =>
                   LET ind == Last(frames).base + descs[j].idx
                   IN /\ ind \in DOMAIN open_upvalues => new.upvalues[j] = open_upvalues[ind]
                      /\ ind \in DOMAIN open_upvalues'
                      /\ open_upvalues'[ind] = new.upvalues[j]
                      /\ upvalues'[new.upvalues[j]] = OpenCell(ind)
C11_ClosingKeepsValue ==
    panicked' = "" =>
       \A c \in 1..Len(upvalues) :
          (upvalues[c].open /\ ~upvalues'[c].open)
          => InBounds(stack, upvalues[c].ind) /\ upvalues'[c].val = At(stack, upvalues[c].ind)
C11_SharedCounter ==
    /\ AtOp("Mk", 7) => TopReg(0) = Integer(1) /\ TopReg(3) = Integer(1)
    /\ AtOp("Shared", 8) =>
          TopReg(2) = Integer(2) /\ TopReg(3) = Integer(3) /\ TopReg(4) = Integer(3)
C11_UpValueSharing ==
    /\ [][C11_ClosureReusesOpenCell]_vars
    /\ [][C11_ClosingKeepsValue]_vars
    /\ []C11_SharedCounter
\* inc and get were returned by mk, their cell is closed, and all three calls
\* have returned
C11_Witness ==
    /\ AtOp("Shared", 8)
    /\ TopReg(0).t = "closure" /\ TopReg(1).t = "closure"
    /\ closures[TopReg(0).v].upvalues = closures[TopReg(1).v].upvalues
    /\ ~upvalues[closures[TopReg(0).v].upvalues[1]].open
\* The up-value cells that are Open
OpenCells == {c \in 1..Len(upvalues) : upvalues[c].open}

\* C12: at every moment at most one up-value cell is Open at a given stack
\* index of the thread, and open_upvalues maps distinct indexes to distinct
\* cells, each Open at its key.
C12_OneOpenCellPerIndex ==
    panicked = "" =>
       /\ \A c, d \in OpenCells : upvalues[c].ind = upvalues[d].ind => c = d
       /\ \A k \in DOMAIN open_upvalues :
             /\ open_upvalues[k] \in OpenCells
             /\ upvalues[open_upvalues[k]].ind = k
       /\ \A k, l \in DOMAIN open_upvalues : open_upvalues[k] = open_upvalues[l] => k = l
\* a second call of mk has made its closures over a new open cell after the
\* first call's cell was closed
C12_Witness ==
    /\ AtOp("Mk", 3)
    /\ OpenCells # {}
    /\ \E c \in 1..Len(upvalues) : ~upvalues[c].open
\* C13: after every step every Open up-value cell names a slot inside the
\* thread's stack.
C13_OpenCellsInStack ==
    panicked = "" => \A c \in OpenCells : upvalues[c].ind < Len(stack)
\* C14: after every step each frame has top <= stack.len() and bottom <= top,
\* and bottom and top do not decrease from one frame to the next above it.
C14_FrameBounds ==
    panicked = "" =>
       \A i \in 1..Len(frames) :
          /\ frames[i].top <= Len(stack)
          /\ frames[i].bottom <= frames[i].top
          /\ i > 1 => /\ frames[i - 1].bottom <= frames[i].bottom
                      /\ frames[i - 1].top <= frames[i].top
\* C14 as the code keeps it: each frame has bottom <= top and bottom <=
\* stack.len(), and bottom does not decrease from one frame to the next above
\* it (top may lie above stack.len(), and need not grow with the frames).
C14_FrameBottoms ==
    panicked = "" =>
       \A i \in 1..Len(frames) :
          /\ frames[i].bottom <= frames[i].top
          /\ frames[i].bottom <= Len(stack)
          /\ i > 1 => frames[i - 1].bottom <= frames[i].bottom
\* a host callback is active above a Lua frame whose top lies above the
\* stack's length
C14_Witness ==
    /\ panicked = "" /\ Len(frames) >= 2
    /\ Last(frames).frame_type = "Callback"
    /\ frames[Len(frames) - 1].frame_type = "Lua"
    /\ frames[Len(frames) - 1].top > Len(stack)
    /\ Last(frames).top < frames[Len(frames) - 1].top
ChosenMetamethod(h, lhs, rhs, M) ==
    IF IsObject(lhs) /\ get_metamethod(h, lhs, M).ok THEN get_metamethod(h, lhs, M)
    ELSE IF IsObject(rhs) THEN get_metamethod(h, rhs, M)
    ELSE None

RawValue(h, t, k) == IF t.t = "table" THEN table_get(h.tables[t.v].entries, k) ELSE Nil
IndexEntry(h, t) ==
    IF get_metatable(h, t).ok THEN metatable_get(h, get_metatable(h, t), "Index") ELSE Nil
\* an __index that index can follow or call
Usable(idx) == IsFunction(idx) \/ IsObject(idx)
\* the first three cases of C17, which both readings below share
IndexOfTable(h, t, k) ==
    /\ (t.t = "table" /\ ~is_nil(RawValue(h, t, k)))
          => meta.result = MetaResult_Value(RawValue(h, t, k))
    /\ (t.t = "table" /\ is_nil(RawValue(h, t, k)) /\ is_nil(IndexEntry(h, t)))
          => meta.result = MetaResult_Value(Nil)
    /\ (IsObject(t) /\ is_nil(RawValue(h, t, k)) /\ IsFunction(IndexEntry(h, t)))
          => meta.result = MetaResult_Call(IndexEntry(h, t), << t, k >>)
    /\ ~IsObject(t)
          => meta.result = MetaResult_Err(MetaOperatorError_Unary("Index", meta_type_name(t)))

\* C17 (as stated): index(t, k) returns the raw t[k] of a Table when it is not
\* nil, without consulting the metatable; Nil when t[k] is nil and the Table
\* has no metatable or no __index; a call of __index with [t, k] when __index
\* is a function; and the error Unary(Index, type) for a UserData without a
\* usable __index and for any other non-table value.
C17_Index ==
    (meta.op = "index") =>
        LET h == meta.before
            t == meta.args[1]
            k == meta.args[2]
        IN /\ IndexOfTable(h, t, k)
           /\ (t.t = "userdata" /\ ~Usable(IndexEntry(h, t)))
                 => meta.result = MetaResult_Err(MetaOperatorError_Unary("Index", "userdata"))

\* C17 (amended): as above, but the UserData that gives Unary(Index,
\* "userdata") is the one with no metatable or a nil __index; an __index that
\* is neither nil, a Table / UserData nor callable gives the error
\* Call(Index, MetaCallError(type of __index)), for a Table and a UserData
\* alike.  index itself leaves the heap as it was.
C17_IndexResult ==
    (meta.op = "index") =>
        LET h == meta.before
            t == meta.args[1]
            k == meta.args[2]
        IN /\ IndexOfTable(h, t, k)
           /\ meta.steps = 0 => meta.heap = h
           /\ (t.t = "userdata" /\ is_nil(IndexEntry(h, t)))
                 => meta.result = MetaResult_Err(MetaOperatorError_Unary("Index", "userdata"))
           /\ (IsObject(t) /\ is_nil(RawValue(h, t, k)) /\ ~is_nil(IndexEntry(h, t))
                 /\ ~Usable(IndexEntry(h, t)))
                 => meta.result =
                       MetaResult_Err(MetaOperatorError_Call("Index",
                                          meta_type_name(IndexEntry(h, t))))
\* index of a UserData whose __index is a number
C17_Witness ==
    /\ meta.op = "index"
    /\ meta.args[1] = UserDataV(3)
    /\ IndexEntry(meta.before, meta.args[1]) = Integer(5)
    /\ meta.result = MetaResult_Err(MetaOperatorError_Call("Index", "number"))


\* the object the __index link of t leads to for key k: t has no raw value
\* for k and its __index is a Table / UserData
NextLink(h, t, k) ==
    IF IsObject(t) /\ is_nil(RawValue(h, t, k)) /\ IsObject(IndexEntry(h, t))
    THEN Some(IndexEntry(h, t))
    ELSE None
\* the n-th object of the chain that starts at t
RECURSIVE ChainAt(_, _, _, _)
ChainAt(h, t, k, n) ==
    IF n = 0 \/ ~NextLink(h, t, k).ok THEN t
    ELSE ChainAt(h, NextLink(h, t, k).val, k, n - 1)
\* the number of links of the chain, counted up to fuel
RECURSIVE ChainDepth(_, _, _, _)
ChainDepth(h, t, k, fuel) ==
    IF fuel = 0 \/ ~NextLink(h, t, k).ok THEN 0
    ELSE 1 + ChainDepth(h, NextLink(h, t, k).val, k, fuel - 1)
\* a chain longer than the heap has objects is a cycle
ChainFuel(h) == Len(h.tables) + Len(h.userdata) + 1
Acyclic(h, t, k) == ChainDepth(h, t, k, ChainFuel(h)) < ChainFuel(h)

\* C18: resolving t0.k along a chain of D __index links that are tables takes
\* one link per callback invocation: after n invocations the access is at
\* the (n + 1)-th object of the chain, no further, on an acyclic and on a
\* cyclic chain alike; an acyclic chain returns after exactly D invocations
\* (so at least D steps of the driver), with the raw value the last object
\* has for k, Nil when it has none.
C18_OneHopPerInvocation ==
    (meta.op = "index" /\ meta.result.tag = "Call" /\ meta.result.function = IndexCallback) =>
        LET h == meta.before
            t0 == meta.args[1]
            k == meta.args[2]
            D == ChainDepth(h, t0, k, ChainFuel(h))
        IN /\ meta.heap = h
           /\ (meta.pending.active /\ meta.pending.function = IndexCallback)
                 => /\ meta.pending.stack = << ChainAt(h, t0, k, meta.steps + 1), k >>
                    /\ ChainDepth(h, t0, k, meta.steps + 1) = meta.steps + 1
                    /\ Acyclic(h, t0, k) => meta.steps < D
           /\ (meta.last.tag = "Return")
                 => /\ Acyclic(h, t0, k)
                    /\ meta.steps = D
                    /\ meta.last.stack = << RawValue(h, ChainAt(h, t0, k, D), k) >>
\* t0.s1 has been resolved through t1 to v in two invocations
C18_Witness ==
    /\ meta.op = "index"
    /\ meta.args = << TableV(5), Str(1) >>
    /\ ChainDepth(meta.before, TableV(5), Str(1), ChainFuel(meta.before)) = 2
    /\ meta.steps = 2
    /\ meta.last = CallbackReturn_Return(<< Integer(7) >>)


\* the __newindex entry of t's metatable, Nil when there is none
NewIndexEntry(h, t) ==
    IF get_metatable(h, t).ok THEN metatable_get(h, get_metatable(h, t), "NewIndex") ELSE Nil
\* the heap with t[k] = v written
HeapWith(h, t, k, v) == [h EXCEPT !.tables[t.v].entries = table_set(@, k, v)]
\* the first case of C19, which both readings below share: a raw entry that
\* is not nil is overwritten in place and no call is asked for
NewIndexInPlace(h, t, k, v) ==
    (t.t = "table" /\ ~is_nil(RawValue(h, t, k)))
        => meta.result = MetaResult_None /\ meta.heap = HeapWith(h, t, k, v)

\* C19 (as stated): new_index(t, k, v) sets a Table's entry in place and
\* returns None when the raw t[k] is not nil, without consulting __newindex;
\* else, for a Table with no __newindex, it sets the entry directly and
\* returns None; otherwise it returns a MetaCall with the arguments
\* (target, k, v) and leaves t unmodified.
C19_NewIndex ==
    (meta.op = "new_index" /\ meta.steps = 0) =>
        LET h == meta.before
            t == meta.args[1]
            k == meta.args[2]
            v == meta.args[3]
        IN /\ NewIndexInPlace(h, t, k, v)
           /\ IF t.t = "table" /\ ~is_nil(RawValue(h, t, k)) THEN TRUE
              ELSE IF t.t = "table" /\ is_nil(NewIndexEntry(h, t))
              THEN meta.result = MetaResult_None /\ meta.heap = HeapWith(h, t, k, v)
              ELSE /\ meta.result.tag = "Call"
                   /\ meta.result.args \in {<< t, k, v >>, << NewIndexEntry(h, t), k, v >>}
                   /\ meta.heap = h

\* C19 (amended): as above, but a Table without __newindex whose key is Nil
\* or NaN gives the error IndexKeyError; a UserData with no metatable or no
\* __newindex and any other non-table value give Unary(NewIndex, type); a
\* __newindex that is a Table / UserData gives a MetaCall of the chaining
\* callback with (__newindex, k, v), a function one a MetaCall of it with
\* (t, k, v), and one that cannot be called the error Call(NewIndex, ..).
\* Only the two set cases modify the heap.
C19_NewIndexResult ==
    (meta.op = "new_index" /\ meta.steps = 0) =>
        LET h == meta.before
            t == meta.args[1]
            k == meta.args[2]
            v == meta.args[3]
            idx == NewIndexEntry(h, t)
        IN /\ NewIndexInPlace(h, t, k, v)
           /\ IF t.t = "table" /\ ~is_nil(RawValue(h, t, k)) THEN TRUE
              ELSE IF t.t = "table" /\ is_nil(idx)
              THEN IF table_set_ok(k)
                   THEN meta.result = MetaResult_None /\ meta.heap = HeapWith(h, t, k, v)
                   ELSE meta.result = MetaResult_Err(IndexKeyError) /\ meta.heap = h
              ELSE /\ meta.heap = h
                   /\ IF is_nil(idx)
                      THEN meta.result =
                              MetaResult_Err(MetaOperatorError_Unary("NewIndex",
                                                                     meta_type_name(t)))
                      ELSE IF IsObject(idx)
                      THEN meta.result = MetaResult_Call(NewIndexCallback, << idx, k, v >>)
                      ELSE IF IsFunction(idx)
                      THEN meta.result = MetaResult_Call(idx, << t, k, v >>)
                      ELSE meta.result =
                              MetaResult_Err(MetaOperatorError_Call("NewIndex",
                                                                    meta_type_name(idx)))
\* a Nil key written to a table whose metatable has no __newindex
C19_Witness ==
    /\ meta.op = "new_index"
    /\ meta.steps = 0
    /\ meta.args = << TableV(13), Nil, Integer(1) >>
    /\ meta.result = MetaResult_Err(IndexKeyError)
    /\ meta.heap = meta.before


\* the __call entry of v's metatable, Nil when there is none
CallEntry(h, v) ==
    IF get_metatable(h, v).ok THEN metatable_get(h, get_metatable(h, v), "Call") ELSE Nil
\* the n-th receiver of the __call chain that starts at v
RECURSIVE CallChainAt(_, _, _)
CallChainAt(h, v, n) == IF n = 0 THEN v ELSE CallChainAt(h, CallEntry(h, v), n - 1)
\* the first n receivers of the chain, the last one first
RECURSIVE Prepended(_, _, _)
Prepended(h, v, n) ==
    IF n = 0 THEN << >> ELSE << CallChainAt(h, v, n - 1) >> \o Prepended(h, v, n - 1)
\* what a receiver with a usable __call resolves to
Resolution(h, r) == IF IsFunction(r) THEN r ELSE CallCallback(r, CallEntry(h, r))

\* C20: call(v) returns a Function unchanged; for a Table / UserData whose
\* metatable has a __call that is a Function, Table or UserData it returns a
\* synthetic callback which, when run, puts v in front of the arguments and
\* calls the resolution of __call, one receiver of the chain per invocation;
\* a value with no metatable, or whose __call is none of the three, gives
\* MetaCallError (of v's type, and of the __call entry's type).
C20_Call ==
    (meta.op = "call") =>
        LET h == meta.before
            v == meta.args[1]
            rest == Tail(meta.args)
        IN /\ meta.heap = h
           /\ IsFunction(v) => meta.result = MetaResult_Function(v)
           /\ (IsObject(v) /\ Usable(CallEntry(h, v)))
                 => meta.result = MetaResult_Function(CallCallback(v, CallEntry(h, v)))
           /\ (~IsFunction(v) /\ ~get_metatable(h, v).ok)
                 => meta.result = MetaResult_Err(CallbackCallError(meta_type_name(v)))
           /\ (get_metatable(h, v).ok /\ ~Usable(CallEntry(h, v)))
                 => meta.result =
                       MetaResult_Err(CallbackCallError(meta_type_name(CallEntry(h, v))))
           /\ meta.pending.active
                 => /\ meta.pending.stack = Prepended(h, v, meta.steps) \o rest
                    /\ meta.pending.function = Resolution(h, CallChainAt(h, v, meta.steps))
           /\ (meta.last.tag = "Err")
                 => /\ meta.steps > 0
                    /\ ~call(h, CallChainAt(h, v, meta.steps)).ok
                    /\ meta.last.err =
                          CallbackCallError(call(h, CallChainAt(h, v, meta.steps)).err)
\* t0(1), whose __call is t1, whose __call is a function: two invocations
\* have put t0 and then t1 in front of the argument
C20_Witness ==
    /\ meta.op = "call"
    /\ meta.args = << TableV(5), Integer(1) >>
    /\ meta.steps = 2
    /\ meta.pending = Pending(HostFn, << TableV(3), TableV(5), Integer(1) >>)


\* the numbers two values denote are the same number
SameNumber(l, r) ==
    /\ l.t \in {"integer", "number"} /\ r.t \in {"integer", "number"}
    /\ IsBig(l) = IsBig(r)
    /\ l.v = r.v
\* equality decided without a metamethod
DirectlyEqual(l, r) ==
    IF l.t \in {"integer", "number", "nan"} /\ r.t \in {"integer", "number", "nan"}
    THEN SameNumber(l, r)
    ELSE IF IsFunction(l) /\ IsFunction(r) THEN l = r
    ELSE l.t = r.t /\ l.v = r.v
DistinctObjects(l, r) == l.t \in {"table", "userdata"} /\ r.t = l.t /\ l.v # r.v
EqMetamethod(h, l, r) ==
    IF get_metamethod(h, l, "Eq").ok THEN get_metamethod(h, l, "Eq")
    ELSE get_metamethod(h, r, "Eq")

\* C21: equal(lhs, rhs) compares values of one primitive tag directly and an
\* Integer with a Number by the numbers they denote; two Tables or two
\* UserData of one identity are equal with no __eq consulted; two of
\* distinct identities give a Call of the resolution of lhs's __eq, else of
\* rhs's, with the arguments [lhs, rhs] (the error Call(Eq, ..) when it
\* cannot be called), and false when neither has one; every other pair is
\* false, and only the distinct-identity case gives a Call.
C21_Equal ==
    (meta.op = "equal" /\ meta.steps = 0) =>
        LET h == meta.before
            lhs == meta.args[1]
            rhs == meta.args[2]
            m == EqMetamethod(h, lhs, rhs)
        IN /\ meta.heap = h
           /\ IF DistinctObjects(lhs, rhs) /\ m.ok
              THEN IF call(h, m.val).ok
                   THEN meta.result = MetaResult_Call(call(h, m.val).val, << lhs, rhs >>)
                   ELSE /\ meta.result.tag = "Err"
                        /\ meta.result.err.kind = "Call"
                        /\ meta.result.err.method = "Eq"
              ELSE meta.result = MetaResult_Value(Boolean(DirectlyEqual(lhs, rhs)))
\* an i64 that no f64 holds exactly
Inexact(val) == val.t = "integer" /\ IsBig(val) /\ val.v % 2 = 1
\* the same holds of every pair but an Integer no f64 holds exactly against a
\* Number
C21_EqualExact ==
    (meta.op = "equal" /\ meta.steps = 0)
        => \/ C21_Equal
           \/ Inexact(meta.args[1]) /\ meta.args[2].t = "number"
           \/ Inexact(meta.args[2]) /\ meta.args[1].t = "number"
\* 2^53 + 1 as an Integer was found equal to 2^53 as a Number
C21_CastEqual ==
    /\ meta.op = "equal"
    /\ meta.args = << BigInteger(1), BigNumber(0) >>
    /\ meta.result = MetaResult_Value(Boolean(TRUE))


\* a step that is one call of poll or error
Polled == aseq'.polls = aseq.polls + 1
\* the routine is suspended in the `.await` of a SequenceState operation
AtAwait(a) == a.fut = "Run" /\ a.waiting /\ a.code[a.pc].k = "await"
AwaitedOp(a) == a.code[a.pc].op
\* the poll about to be made resumes the operation the routine is suspended
\* in; the poll made has handed the routine the result of that operation
ResumesOp(ops) == AtAwait(aseq) /\ AwaitedOp(aseq).op \in ops
Delivers(res) ==
    /\ Len(aseq'.log) = Len(aseq.log) + 1
    /\ aseq'.log[Len(aseq'.log)] =
          Delivery(aseq.pc, AwaitedOp(aseq).op, res, aseq'.entry.err)
    /\ ~(aseq'.waiting /\ aseq'.pc = aseq.pc)
\* the poll that started an operation ends with the SequencePoll of that one
\* operation
ArrangesOne ==
    AtAwait(aseq')
        => /\ aseq'.result = SequencePoll(AwaitedOp(aseq').op, AwaitedOp(aseq').target,
                                          AwaitedOp(aseq').bottom)
           /\ aseq'.started = 1

\* C22 as stated: each of pending, call, yield_to and resume arranges one
\* SequencePoll in the poll that starts it, suspends once, and at the next
\* poll hands the routine Ok(()) after poll and Err(error) after error, the
\* error being consumed by it.
C22_Delivers ==
    [][Polled =>
          /\ ArrangesOne
          /\ ResumesOp({"Pending", "Call", "Yield", "Resume"})
                => /\ ~aseq'.entry.some => Delivers(IF AwaitedOp(aseq).op = "Pending"
                                                    THEN "Unit" ELSE "Ok")
                   /\ aseq'.entry.some => Delivers("Err") /\ aseq'.left_error = NoErr]_vars

\* C22: the same for call, yield_to and resume; pending returns () after
\* poll and panics after error.  An error is handed to the one operation the
\* call of error resumed: a poll that resumes no operation hands nothing to
\* the routine.
C22_DeliversResult ==
    [][Polled =>
          /\ ArrangesOne
          /\ ResumesOp({"Call", "Yield", "Resume"})
                => /\ ~aseq'.entry.some => Delivers("Ok")
                   /\ aseq'.entry.some => Delivers("Err") /\ aseq'.left_error = NoErr
          /\ ResumesOp({"Pending"})
                => /\ ~aseq'.entry.some => Delivers("Unit")
                   /\ aseq'.entry.some
                         => /\ aseq'.result.tag = "Panic"
                            /\ aseq'.log = aseq.log
          /\ ~AtAwait(aseq) => aseq'.log = aseq.log]_vars
\* one routine has been handed an error by one operation and Ok(()) by
\* another
C22_Witness ==
    \E i, j \in DOMAIN aseq.log :
        /\ aseq.log[i].res = "Err" /\ aseq.log[i].op = "Call"
        /\ aseq.log[j].res = "Ok" /\ aseq.log[j].op = "Call"


NotAwaited == PollPanic("SequenceState async method not awaited")
C23_WitnessCompleted ==
    /\ aseq.result = NotAwaited
    /\ aseq.code[aseq.pc].k = "return"


ForeignAwait == PollPanic("await of a future other than SequenceState methods")
\* C24: a poll in which the routine suspended with no operation recorded
\* ends in the panic of next_op.expect, not in a SequencePoll; the panic has
\* no other cause.
C24_ForeignAwait ==
    /\ (aseq.polls > 0 /\ aseq.waiting /\ aseq.started = 0) => aseq.result = ForeignAwait
    /\ aseq.result = ForeignAwait
          => /\ aseq.waiting /\ aseq.started = 0
             /\ aseq.code[aseq.pc].k = "foreign"
\* the second poll of a routine, resumed after its call, awaited a future
\* that was not an operation of SequenceState
C24_Witness ==
    /\ aseq.result = ForeignAwait
    /\ aseq.polls = 2
    /\ aseq.resumed_at = 1

AfterPending == PollPanic("SequencePoll::Pending cannot be followed by an error")
ResumedInPending ==
    /\ aseq.resumed_at # 0
    /\ aseq.code[aseq.resumed_at] = Await(SeqOp_Pending, FALSE)
\* C25: the call of error that resumes a routine suspended in pending()
\* panics, the call of poll that resumes it makes pending() return, and the
\* routine goes on; the panic has no other cause.
C25_PendingThenError ==
    /\ (ResumedInPending /\ aseq.entry.some) => aseq.result = AfterPending
    /\ (ResumedInPending /\ ~aseq.entry.some)
          => /\ aseq.result # AfterPending
             /\ \E i \in DOMAIN aseq.log :
                   aseq.log[i] = Delivery(aseq.resumed_at, "Pending", "Unit", 0)
             /\ aseq.pc > aseq.resumed_at
    /\ aseq.result = AfterPending => ResumedInPending /\ aseq.entry.some
\* error was called on a routine suspended in pending(), after an earlier
\* operation of the routine had been resumed
C25_Witness ==
    /\ aseq.result = AfterPending
    /\ aseq.resumed_at > 1


Ints(s) == [i \in DOMAIN s |-> Integer(s[i])]
AllOk(a) == \A i \in DOMAIN a.log : a.log[i].res = "Ok"
\* C26: call(f, bottom) makes the poll return Call { function: f, bottom },
\* upon which f is called with the values from bottom upward and its returns
\* are left at bottom.  The routine of the test, calling the entries of a
\* table one after another with bottom = 0, returns 6, 7, 4, 5, 1, 2, 3 for
\* the table {f1, f2, f3}, 4, 5, 6, 7 for {f3, f2} and nothing for the empty
\* table; a routine calling f1 with bottom = 1 and then f2 with bottom = 2
\* keeps the values below and ends with 1, 4, 5, 2, 3 above the first.
C26_CallAtBottom ==
    /\ (AtAwait(aseq) /\ AwaitedOp(aseq).op = "Call")
          => /\ aseq.result.target = AwaitedOp(aseq).target
             /\ aseq.result.bottom = AwaitedOp(aseq).bottom
    /\ (aseq.code = TestRoutine(<< 1, 2, 3 >>) /\ aseq.result.tag = "Return")
          => aseq.stack = Ints(<< 6, 7, 4, 5, 1, 2, 3 >>)
    /\ (aseq.code = TestRoutine(<< 3, 2 >>) /\ aseq.result.tag = "Return")
          => aseq.stack = Ints(<< 4, 5, 6, 7 >>)
    /\ (aseq.code = TestRoutine(<< >>) /\ aseq.result.tag = "Return")
          => aseq.stack = << >>
    /\ (aseq.result.tag = "TailCall" /\ Len(aseq.log) = 2 /\ AllOk(aseq))
          => aseq.stack = << aseq.stack[1] >> \o Ints(<< 1, 4, 5, 2, 3 >>)
\* the sequence of the test has returned 6, 7, 4, 5, 1, 2, 3
C26_Witness ==
    /\ aseq.code = TestRoutine(<< 1, 2, 3 >>)
    /\ aseq.result.tag = "Return"
    /\ aseq.stack = Ints(<< 6, 7, 4, 5, 1, 2, 3 >>)
\* ... and the routine with bottom = 1 and 2 has made its tail call
C26_WitnessBottom ==
    /\ aseq.result.tag = "TailCall" /\ Len(aseq.log) = 2 /\ AllOk(aseq)
    /\ aseq.stack = << Integer(8), Integer(1), Integer(4), Integer(5), Integer(2), Integer(3) >>


\* a sequence of Thread::call or Thread::resume that has not given its result
Unfinished(seq) == seq.kind = "thread" /\ seq.current_frame # -1 /\ seq.result.tag = "none"
\* the step taken is a step of an unfinished sequence that was created
\* before another unfinished one
StepsEarlier ==
    /\ event'.kind \in {"StepLua", "Callback"}
    /\ event'.seq \in DOMAIN seqs
    /\ Unfinished(seqs[event'.seq])
    /\ \E later \in (event'.seq + 1)..Len(seqs) : Unfinished(seqs[later])
Rejected == panicked' # "" /\ running' = 0 /\ seqs' = seqs /\ frames' = frames

\* C27: the step of an unfinished sequence that was created before a still
\* unfinished one is rejected with an assertion failure, and no opcode is
\* executed.
C27_OnlyLatest == [][StepsEarlier => Rejected]_vars
\* the same for a step that runs byte-code, and for a step whose pending
\* callback gave a result
C27_ResultRejected ==
    [][(StepsEarlier /\ ~(event'.kind = "Callback" /\ event'.name = "None"))
          => Rejected]_vars
\* a sequence with a pending callback was stepped and its callback gave
\* None, while a sequence created after it was unfinished: no panic
C27_CallbackStepped ==
    /\ event.kind = "Callback" /\ event.name = "None"
    /\ Unfinished(seqs[event.seq])
    /\ \E later \in (event.seq + 1)..Len(seqs) : Unfinished(seqs[later])
    /\ panicked = ""


\* step_lua has returned in the loop `while true do end`
SpinReturned ==
    event.kind = "Op" /\ event.name = "Jump" /\ running = 0 /\ AtOp("Spin", 0)
SpinIntact ==
    /\ Unfinished(seqs[event.seq])
    /\ Len(frames) = seqs[event.seq].current_frame + 1
    /\ Last(frames).top <= Len(stack)
    /\ open_upvalues = EmptyMap
\* C28: in the loop `while true do end` (one Jump to itself) every
\* invocation of step_lua returns Unfinished after exactly
\* THREAD_GRANULARITY = 64 opcodes, with the frame, the stack and the
\* up-values as they were.
C28_ExactlyQ == SpinReturned => executed = THREAD_GRANULARITY /\ SpinIntact
\* what the code does: the same with one opcode more
C28_QPlusOne == SpinReturned => executed = THREAD_GRANULARITY + 1 /\ SpinIntact


\* the opcode about to be executed is a Return of a Lua frame whose
\* frame_return is Upper; its start, and the values it returns
ReturnsToUpper ==
    /\ InStepLua /\ CurrentOp = "Return"
    /\ Last(frames).frame_return.kind = "Upper"
ReturnStart == Last(frames).base + CurrentOpcode.start
ReturnCount == to_constant_or(CurrentOpcode.count, Len(stack) - ReturnStart)
ReturnedValues == SubSeq(stack, ReturnStart + 1, ReturnStart + ReturnCount)
Wanted == Last(frames).frame_return.returns

ReturnedToUpper ==
    /\ panicked' = ""
    /\ frames' = Front(frames)
    /\ IF is_variable(Wanted)
       THEN stack' = SubSeq(stack, 1, Last(frames).bottom) \o ReturnedValues
       ELSE /\ Len(stack') = Last(frames').top
            /\ \A i \in 0..(Wanted.n - 1) :
                  InBounds(stack', Last(frames).bottom + i)
                     => At(stack', Last(frames).bottom + i) =
                           IF i < ReturnCount THEN ReturnedValues[i + 1] ELSE Nil
\* C29: a Return to an upper frame that wants k values leaves the first
\* min(count, k) returned values and then Nil in [bottom, bottom + k) and the
\* stack at the upper frame's top; one that wants all leaves the count
\* values in [bottom, bottom + count) and the stack at bottom + count.  No
\* access is out of range, whatever the size of the callee's frame.
C29_ReturnToUpper == [][ReturnsToUpper => ReturnedToUpper]_vars
\* the same for a callee whose frame reaches bottom + k
C29_ReturnInRange ==
    [][(ReturnsToUpper
          /\ (is_variable(Wanted) \/ Last(frames).bottom + Wanted.n <= Len(stack)))
          => ReturnedToUpper]_vars
\* the callee `function() end`, called without arguments for three values,
\* has a frame of one slot: the Nil for the second value is out of range
C29_SmallCallee ==
    /\ panicked = "index out of bounds"
    /\ event.kind = "Op" /\ event.name = "Return"


ReturnsAtBoundary ==
    /\ InStepLua /\ CurrentOp = "Return"
    /\ Last(frames).frame_return.kind = "CallBoundary"
Boundaries(fs) ==
    Cardinality({i \in DOMAIN fs : fs[i].frame_return.kind = "CallBoundary"})
ReturnedAtBoundary ==
    /\ panicked' = ""
    /\ running' = 0
    /\ seqs'[running].result = Ok(ReturnedValues)
    /\ seqs'[running].current_frame = -1
    /\ frames' = Front(frames)
    /\ Boundaries(frames') = Boundaries(frames) - 1
    /\ stack' = IF frames' = <<>> THEN <<>>
                ELSE resize(stack, Last(frames').top)
\* every open up-value is the cell of a slot of the stack
OpenInRange == \A k \in DOMAIN open_upvalues : InBounds(stack, upvalues[open_upvalues[k]].ind)
\* C30: a Return from a frame whose frame_return is CallBoundary gives all the
\* returned values, neither truncated nor padded, as the Finished result of
\* the step, removes exactly one CallBoundary frame (the returning one) and
\* leaves the stack at the recorded top of the frame that is then on top, or
\* empty when no frame remains.
C30_ReturnAtBoundary == [][ReturnsAtBoundary => ReturnedAtBoundary]_vars
\* the same on a thread whose open up-values all lie in the stack
C30_ReturnInRange == [][(ReturnsAtBoundary /\ OpenInRange) => ReturnedAtBoundary]_vars
\* the Return of a call made after a failed resume removed the frame of an
\* unfinished call: the up-value that call left open is beyond the stack
C30_StaleUpValue ==
    /\ panicked = "index out of bounds"
    /\ event.kind = "Op" /\ event.name = "Return"
    /\ frames # <<>> /\ Last(frames).frame_return.kind = "CallBoundary"
    /\ ~OpenInRange
\* a Return of two values across a CallBoundary with another frame left below
C30_Witness ==
    /\ event.kind = "Op" /\ event.name = "Return"
    /\ running = 0 /\ panicked = ""
    /\ seqs[event.seq].result.tag = "ok"
    /\ Len(seqs[event.seq].result.vals) = 2
    /\ frames # <<>> /\ Len(stack) = Last(frames).top
\* ... and one of no value that leaves no frame
C30_WitnessEmpty ==
    /\ event.kind = "Op" /\ event.name = "Return"
    /\ running = 0 /\ panicked = ""
    /\ seqs[event.seq].result = Ok(<<>>)
    /\ frames = <<>> /\ stack = <<>>


\* the frame an entry call pushes: at the slot the function was pushed to
EntryFrame(f, bottom, yieldable) ==
    /\ f.bottom = bottom
    /\ f.frame_type \in {"Lua", "Callback"}
    /\ f.frame_return = CallBoundary
    /\ f.yieldable = yieldable
CalledByCall ==
    /\ event'.kind = "Call" /\ panicked' = ""
ResumedAtStart ==
    /\ event'.kind = "Resume" /\ panicked' = ""
    /\ frames # <<>> /\ Last(frames).frame_type = "CoroutineStart"
\* a Call, TailCall or GenericForCall that pushed a frame
PushesFrame ==
    /\ InStepLua /\ CurrentOp \in CallOps /\ panicked' = ""
    /\ Len(frames') = Len(frames) + (IF CurrentOp = "TailCall" THEN 0 ELSE 1)
SameFlagAbove(fs) ==
    \A i \in 2..Len(fs) :
       fs[i].frame_return.kind = "Upper" => fs[i].yieldable = fs[i - 1].yieldable
\* C31: Thread::call pushes the function and the arguments and makes an entry
\* frame with CallBoundary and yieldable = false; the resume of a
\* CoroutineStart frame makes the entry frame with CallBoundary and
\* yieldable = true; a frame pushed by Call, TailCall or GenericForCall has
\* the yieldable flag of the frame that executed the opcode; so every frame
\* that returns to an upper frame has the flag of the frame below it.
C31_Yieldable ==
    /\ []SameFlagAbove(frames)
    /\ [][/\ CalledByCall =>
               /\ frames' = Append(frames, Last(frames'))
               /\ EntryFrame(Last(frames'), Len(stack), FALSE)
               /\ Last(frames').frame_type = "Lua" =>
                     (InBounds(stack', Len(stack)) /\ At(stack', Len(stack)).t = "closure")
          /\ ResumedAtStart =>
               /\ frames' = Append(Front(frames), Last(frames'))
               /\ EntryFrame(Last(frames'), Len(stack), TRUE)
               /\ Last(frames').frame_type = "Lua" =>
                     At(stack', Len(stack)) = Last(frames).function
          /\ PushesFrame => Last(frames').yieldable = Last(frames).yieldable]_vars
\* a yieldable frame pushed by an opcode of a coroutine while ...
C31_Witness ==
    /\ Len(frames) >= 2 /\ Last(frames).frame_return.kind = "Upper"
    /\ Last(frames).yieldable /\ event.kind = "Op" /\ event.name \in CallOps
\* ... and one that is not, pushed by an opcode of a called function
C31_WitnessCall ==
    /\ Len(frames) >= 2 /\ Last(frames).frame_return.kind = "Upper"
    /\ ~Last(frames).yieldable /\ event.kind = "Op" /\ event.name \in CallOps


\* The slot the callee of the next Call, TailCall or GenericForCall is called
\* at, the callee and its arguments as the stack holds them before the opcode
CalleeSlot ==
    CASE CurrentOp = "TailCall" -> Last(frames).bottom
      [] CurrentOp = "GenericForCall" -> Last(frames).base + CurrentOpcode.base + 3
      [] OTHER -> Last(frames).base + CurrentOpcode.func
CalleeArgs ==
    IF CurrentOp = "GenericForCall"
    THEN << Reg(ThreadState, Last(frames), CurrentOpcode.base + 1),
            Reg(ThreadState, Last(frames), CurrentOpcode.base + 2) >>
    ELSE LET func == Last(frames).base + CurrentOpcode.func
             arg_count == to_constant_or(CurrentOpcode.args, Len(stack) - func - 1)
         IN SubSeq(stack, func + 2, func + 1 + arg_count)
CallsClosure ==
    /\ InStepLua /\ CurrentOp \in CallOps /\ CurrentOperand.t = "closure"
    /\ panicked' = ""
\* the frame and the stack after closure fn was called at slot with args
Entered(slot, fn, args) ==
    LET proto == Protos[closures[fn.v].proto]
        extra == Max(0, Len(args) - proto.fixed_params)
        f == Last(frames')
    IN /\ frames' # <<>> /\ f.frame_type = "Lua"
       /\ f.bottom = slot /\ At(stack', slot) = fn
       /\ f.base = slot + 1 + extra
       /\ SubSeq(stack', slot + 2, f.base) = SubSeq(args, proto.fixed_params + 1, Len(args))
       /\ \A i \in 0..(Min(proto.fixed_params, Len(args)) - 1) :
             At(stack', f.base + i) = args[i + 1]
       /\ f.top = f.base + proto.stack_size
       /\ Len(stack') = f.top
\* C32: after a closure is called with arg_count arguments, the new Lua frame
\* has its bottom at the callee's slot and base = bottom + 1 +
\* max(0, arg_count - fixed_params); the extra arguments are in
\* [bottom + 1, base) in their order, the first fixed_params arguments are in
\* the registers from R0 in their order, and top = base + stack_size is the
\* length of the stack.
C32_FrameLayout ==
    [][/\ CallsClosure => Entered(CalleeSlot, CurrentOperand, CalleeArgs)
       /\ (CalledByCall /\ InBounds(stack', Len(stack))
                         /\ At(stack', Len(stack)).t = "closure")
             => Entered(Len(stack), At(stack', Len(stack)), event'.vals)
       /\ (ResumedAtStart /\ Last(frames).function.t = "closure")
             => Entered(Len(stack), Last(frames).function, event'.vals)]_vars
\* a closure entered by an opcode with two arguments more than it has
\* parameters ...
C32_Witness ==
    /\ event.kind = "Op" /\ event.name \in CallOps /\ panicked = ""
    /\ frames # <<>> /\ Last(frames).frame_type = "Lua" /\ Last(frames).pc = 0
    /\ Last(frames).base >= Last(frames).bottom + 3
\* ... and one with a parameter, entered with an extra argument
C32_WitnessFixed ==
    /\ event.kind \in {"Op", "Call", "Resume"} /\ panicked = ""
    /\ frames # <<>> /\ Last(frames).frame_type = "Lua" /\ Last(frames).pc = 0
    /\ Last(frames).base >= Last(frames).bottom + 2
    /\ CurProto(ThreadState, Last(frames)).fixed_params >= 1


FixedParams == Protos[closures[CurrentOperand.v].proto].fixed_params
MissingNil ==
    \A i \in Len(CalleeArgs)..(FixedParams - 1) :
       /\ InBounds(stack', Last(frames').base + i)
       /\ At(stack', Last(frames').base + i) = Nil
\* C33: when a closure is called with fewer arguments than it has fixed
\* parameters, also by a Call with a constant argument count while the
\* caller's stack holds other values above the arguments, every register of
\* a missing parameter holds Nil on entry to the callee.
C33_MissingNil ==
    [][(CallsClosure /\ Len(CalleeArgs) < FixedParams) => MissingNil]_vars
\* the same for a call whose arguments are the last values of the stack
C33_MissingNilAtTop ==
    [][(CallsClosure /\ Len(CalleeArgs) < FixedParams
          /\ (CurrentOp = "GenericForCall"
                \/ \A i \in (CalleeSlot + 1 + Len(CalleeArgs))..(Len(stack) - 1) :
                      At(stack, i) = Nil))
          => MissingNil]_vars
\* `function(p) return p end` entered without argument by the call g() of
\* `function(g) do local x, y = 7, 8 end; return g() end`: p is 8
C33_StaleParameter ==
    /\ event.kind = "Op" /\ event.name = "Call" /\ panicked = ""
    /\ frames # <<>> /\ Last(frames).frame_type = "Lua" /\ Last(frames).pc = 0
    /\ CurProto(ThreadState, Last(frames)).fixed_params = 1
    /\ Reg(ThreadState, Last(frames), 0) = Integer(8)


\* The opcode about to be executed makes its frame exit, or is a Jump that
\* closes; ClosesFrom is the index the up-values are closed from
ExitsByOpcode == InStepLua /\ CurrentOp \in {"Return", "TailCall"}
JumpCloses == InStepLua /\ CurrentOp = "Jump" /\ CurrentOpcode.close_upvalues >= 0
\* The step ends with an error and the frames are unwound
ErrorUnwinds ==
    /\ panicked = "" /\ panicked' = ""
    /\ \/ event'.kind = "Op" /\ seqs'[event'.seq].result.tag = "err"
                             /\ seqs[event'.seq].result.tag = "none"
       \/ event'.kind = "Callback" /\ event'.name = "Err"
    /\ Len(frames') < Len(frames)
ClosedFrom(b) ==
    \A k \in DOMAIN open_upvalues :
       LET c == open_upvalues[k]
       IN IF k >= b
          THEN /\ k \notin DOMAIN open_upvalues'
               /\ upvalues[c].open => upvalues'[c] = ClosedCell(At(stack, upvalues[c].ind))
          ELSE /\ k \in DOMAIN open_upvalues' /\ open_upvalues'[k] = c
               /\ upvalues'[c] = upvalues[c]
\* (a TailCall whose callee cannot be called exits its frame and then unwinds:
\* the lowest frame that exits is the one the up-values are closed from)
\* C34: when a frame with bottom b exits by Return, TailCall or error unwind,
\* every cell of open_upvalues with index >= b leaves the map and is Closed
\* with the value its slot held at that moment, before returned values or
\* tail-call arguments overwrite the slot, and every cell with a smaller
\* index stays Open in the map; a Jump with close register r does the same
\* from base + r.
C34_CloseOnExit ==
    [][/\ (ExitsByOpcode /\ ~ErrorUnwinds) => ClosedFrom(Last(frames).bottom)
       /\ JumpCloses => ClosedFrom(Last(frames).base + CurrentOpcode.close_upvalues)
       /\ ErrorUnwinds => ClosedFrom(frames[Len(frames') + 1].bottom)]_vars

\* the same on a thread whose open up-values all lie in the stack
C34_CloseInRange ==
    [][OpenInRange =>
         /\ (ExitsByOpcode /\ ~ErrorUnwinds) => ClosedFrom(Last(frames).bottom)
         /\ JumpCloses => ClosedFrom(Last(frames).base + CurrentOpcode.close_upvalues)
         /\ ErrorUnwinds => ClosedFrom(frames[Len(frames') + 1].bottom)]_vars
\* a cell closed by a Return with the value of its slot, while a cell below
\* the frame stays open
C34_ClosedByJump ==
    /\ event.kind = "Op" /\ event.name = "Jump" /\ panicked = ""
    /\ \E c \in 1..Len(upvalues) : ~upvalues[c].open /\ upvalues[c].val = Integer(5)
C34_Closed ==
    /\ event.kind = "Op" /\ event.name \in {"Return", "TailCall"} /\ panicked = ""
    /\ \E c \in 1..Len(upvalues) : ~upvalues[c].open /\ upvalues[c].val # Nil


\* the cell under key k is Open at k, and every Open cell is the one the map
\* holds under its index
MapAgrees ==
    /\ \A k \in DOMAIN open_upvalues :
          /\ open_upvalues[k] \in 1..Len(upvalues)
          /\ upvalues[open_upvalues[k]] = OpenCell(k)
    /\ \A c \in OpenCells :
          /\ upvalues[c].ind \in DOMAIN open_upvalues
          /\ open_upvalues[upvalues[c].ind] = c
StaysClosed ==
    \A c \in 1..Len(upvalues) :
       ~upvalues[c].open =>
          /\ c <= Len(upvalues') /\ ~upvalues'[c].open
          /\ \A k \in DOMAIN open_upvalues' : open_upvalues'[k] # c
FailedResume ==
    /\ event'.kind = "Resume" /\ panicked' = ""
    /\ Len(seqs') = Len(seqs) + 1
    /\ Last(seqs').kind = "immediate" /\ Last(seqs').result = Err(BadResume)
\* C36: a resume that fails with BadResume leaves the thread unchanged: its
\* frames, stack and open_upvalues are those of before the call, also when
\* the top frame of the thread is a Lua or a Callback frame.
C36_BadResumeUnchanged ==
    [][FailedResume => UNCHANGED << frames, stack, open_upvalues >>]_vars
\* the same for a thread without frames
C36_NoFrameUnchanged ==
    [][(FailedResume /\ frames = <<>>) => UNCHANGED << frames, stack, open_upvalues >>]_vars
\* what a failed resume does to a thread with frames: the top frame is gone,
\* the stack and the open up-values are as before
C36_TopFramePopped ==
    [][(FailedResume /\ frames # <<>>)
          => (frames' = Front(frames) /\ UNCHANGED << stack, open_upvalues >>)]_vars

\* a thread made by Thread::new, after one call and a failed resume: the
\* call's frame is gone and its function and registers are still on the stack
C36_FrameLost ==
    /\ event.kind = "Resume" /\ panicked = ""
    /\ Last(seqs).result = Err(BadResume)
    /\ frames = <<>> /\ stack # <<>>


ResumesYield ==
    /\ event'.kind = "Resume" /\ panicked = ""
    /\ frames # <<>> /\ Last(frames).frame_type = "Yield"
\* the thread as it was while the callback that yielded was pending
BeforeYield == [ThreadState EXCEPT !.frames[Len(frames)].frame_type = "Callback"]
\* ... and after that callback returned vals instead
HadReturned(vals) == callback_return(BeforeYield, ThreadSequence(TRUE, Len(frames) - 1), vals).st
\* C37: the resume, with arguments args, of a thread suspended at a Yield
\* frame leaves the frames and the stack (contents and length) as they would
\* be had the callback that yielded returned args with
\* CallbackResult::Return, for a constant and for a variable wanted count.
C37_ResumeAsReturn ==
    [][ResumesYield =>
         /\ frames' = HadReturned(event'.vals).frames
         /\ stack' = HadReturned(event'.vals).stack
         /\ (panicked' = "") = ~Panicked(HadReturned(event'.vals))]_vars
\* a resume with three values of a callback called for a variable count ...
C37_Witness ==
    /\ event.kind = "Resume" /\ Len(event.vals) = 3 /\ panicked = ""
    /\ Last(seqs).kind = "thread" /\ Last(seqs).current_frame = Len(frames) - 1
    /\ frames # <<>> /\ Last(frames).frame_type = "Lua" /\ Last(frames).pc > 0
    /\ CurProto(ThreadState, Last(frames)).opcodes[Last(frames).pc].op = "Call"
    /\ is_variable(CurProto(ThreadState, Last(frames)).opcodes[Last(frames).pc].returns)
\* ... and of one called for two values
C37_WitnessConstant ==
    /\ event.kind = "Resume" /\ Len(event.vals) = 3 /\ panicked = ""
    /\ Last(seqs).kind = "thread" /\ Last(seqs).current_frame = Len(frames) - 1
    /\ frames # <<>> /\ Last(frames).frame_type = "Lua" /\ Last(frames).pc > 0
    /\ CurProto(ThreadState, Last(frames)).opcodes[Last(frames).pc].op = "Call"
    /\ ~is_variable(CurProto(ThreadState, Last(frames)).opcodes[Last(frames).pc].returns)


\* a step of a sequence whose callback is pending, that did not panic
PendingStep ==
    /\ event'.kind = "Callback" /\ panicked = "" /\ panicked' = ""
    /\ seqs[event'.seq].pending_callback
\* after the step the sequence runs byte-code again
RunsLuaAgain ==
    /\ ~seqs'[event'.seq].pending_callback
    /\ seqs'[event'.seq].current_frame # -1
C38_WitnessPending ==
    /\ event.kind = "Callback" /\ event.name = "None" /\ panicked = ""
    /\ seqs[event.seq].pending_callback
    /\ frames # <<>> /\ Last(frames).frame_type = "Callback"


Final(s) == seqs[s].kind = "thread" /\ seqs[s].result.tag # "none"
Cleared(s) == seqs[s].current_frame = -1 /\ ~seqs[s].pending_callback
\* the step made in this transition is one of sequence s
StepOf(s) == event'.kind \in {"StepFinished", "Callback", "StepLua"} /\ event'.seq = s
\* C39: once a step of a thread sequence has returned a final result, values
\* or an error, the sequence is finished: current_frame is None and the
\* pending callback is cleared, whichever path gave the result (a Lua
\* return, an error unwind, a yield, a callback returning across a
\* CallBoundary); any further step panics with "cannot step finished
\* sequence" and touches neither the thread nor a callback.
C39_FinishedCleared ==
    /\ [](panicked = "" => \A s \in 1..Len(seqs) : Final(s) => Cleared(s))
    /\ [][\A s \in 1..Len(seqs) :
            (panicked = "" /\ Final(s) /\ StepOf(s))
               => /\ event'.kind = "StepFinished"
                  /\ panicked' = "cannot step finished sequence"
                  /\ UNCHANGED << frames, stack, open_upvalues, upvalues, seqs >>]_vars
\* the same for the results that are not the return of a callback
C39_ClearedOtherwise ==
    [][\A s \in 1..Len(seqs) :
         (panicked' = "" /\ ~Final(s) /\ seqs'[s].kind = "thread"
            /\ seqs'[s].result.tag # "none"
            /\ ~(event'.kind = "Callback" /\ event'.name = "Return"))
           => (seqs'[s].current_frame = -1 /\ ~seqs'[s].pending_callback)]_vars
\* a callback called by Thread::call has returned: the step gave its values,
\* and the sequence still has its frame index and its callback
C39_StillPending ==
    /\ event.kind = "Callback" /\ event.name = "Return" /\ panicked = ""
    /\ seqs[event.seq].result.tag = "ok"
    /\ seqs[event.seq].pending_callback /\ seqs[event.seq].current_frame # -1


(***************************************************************************)
(* C40: the numeric for loop.                                              *)
(***************************************************************************)
\* The values a, a+s, a+2s, ... that are not past b
RECURSIVE Iterations(_, _, _)
Iterations(a, b, s) ==
    IF (s > 0 /\ a > b) \/ (s < 0 /\ a < b) THEN <<>>
    ELSE << a >> \o Iterations(a + s, b, s)
\* What the body of Proto_For3 leaves in r after running for the values vs
RECURSIVE Recorded(_)
Recorded(vs) ==
    IF vs = <<>> THEN 0 ELSE Recorded(SubSeq(vs, 1, Len(vs) - 1)) * 5 + vs[Len(vs)] + 2
\* The frames of Proto_For3, with their parameters
ForFrames ==
    {i \in 1..Len(frames) :
        /\ frames[i].frame_type = "Lua"
        /\ InBounds(stack, frames[i].bottom)
        /\ At(stack, frames[i].bottom) = Fn("For3")}
ForValues(i) ==
    Iterations(At(stack, frames[i].base).v, At(stack, frames[i].base + 1).v,
               At(stack, frames[i].base + 2).v)
\* the frame is at the first opcode of the body, in its k-th iteration
InBody(i, k) ==
    /\ frames[i].pc = 5
    /\ k \in 1..Len(ForValues(i))
    /\ At(stack, frames[i].base + 7) = Integer(ForValues(i)[k])
    /\ At(stack, frames[i].base + 3) = Integer(Recorded(SubSeq(ForValues(i), 1, k - 1)))
\* the frame has left the loop
FellThrough(i) == frames[i].pc = 9

\* C40: for integers a, b and s # 0, NumericForPrep and the NumericForLoops
\* after it run the body once for each of a, a+s, a+2s, ... that is not past
\* b, in this order and with the visible induction register holding the
\* value, never for another value, and fall through after the last one (at
\* once when a is past b).
C40_NumericFor ==
    panicked = "" =>
        \A i \in ForFrames :
            /\ frames[i].pc = 5 => \E k \in 1..Len(ForValues(i)) : InBody(i, k)
            /\ FellThrough(i) =>
                  At(stack, frames[i].base + 3) = Integer(Recorded(ForValues(i)))
            /\ frames[i].pc = 8 =>
                  \E k \in 0..Len(ForValues(i)) :
                     /\ At(stack, frames[i].base + 3) =
                           Integer(Recorded(SubSeq(ForValues(i), 1, k)))
                     /\ At(stack, frames[i].base + 4) =
                           Integer(At(stack, frames[i].base).v
                                   + (k - 1) * At(stack, frames[i].base + 2).v)
\* a loop of several iterations with a negative step has fallen through
C40_Witness ==
    /\ panicked = ""
    /\ \E i \in ForFrames :
          /\ FellThrough(i)
          /\ Len(ForValues(i)) = 3
          /\ At(stack, frames[i].base + 2).v < 0
\* a loop whose start is past its limit has fallen through
C40_WitnessNone ==
    /\ panicked = ""
    /\ \E i \in ForFrames : FellThrough(i) /\ ForValues(i) = <<>>
          /\ At(stack, frames[i].base + 3) = Integer(0)
====
